---------------------------- MODULE Spec2Model ----------------------------
(***************************************************************************)
(* schengen-calc backend: registration / login (auth.js), subscription     *)
(* creation against the Square gateway (create-subscription.js) and the    *)
(* Square webhook handlers (square-webhook.js), over the D1 (SQLite) store *)
(* of schema.sql.                                                          *)
(*                                                                         *)
(* Every request is a process: while it is between two awaits it is an     *)
(* element of `reqs`, and each step of it is one awaited store statement   *)
(* (`await env.DB...`) or one awaited gateway call, together with the      *)
(* synchronous code that runs from its return up to the next such await or *)
(* up to the Response.  The first step of a request also holds its arrival *)
(* (reading and validating the body).  Requests interleave between any two *)
(* steps, as the handlers do.                                              *)
(*                                                                         *)
(* Strings that the code transforms or inspects (emails, passwords) are    *)
(* tuples of one-character strings.  Columns that no handler reads back    *)
(* and no property mentions (created_at, updated_at, last_login_at,        *)
(* started_at, last_used_at, ip_address, user_agent, email_verified) are   *)
(* left out of the rows.                                                   *)
(***************************************************************************)
EXTENDS Integers, Sequences, FiniteSets, TLC

VARIABLES
    users,          \* table users: sequence of rows, index = id (AUTOINCREMENT)
    subscriptions,  \* table subscriptions, in insertion order
    payments,       \* table payments, in insertion order
    sessions,       \* table user_sessions, in insertion order
    gwCustomers,    \* number of customers the gateway has created (ids 1..n)
    gwSubs,         \* gateway subscriptions: index = id, [customerId]
    reqs,           \* requests between two awaits, in order of arrival
    resp,           \* the Response returned by the step just taken, if any
    clientTokens,   \* the tokens the Responses so far have carried
    now             \* the clock, in days

vars == <<users, subscriptions, payments, sessions, gwCustomers, gwSubs, reqs, resp,
          clientTokens, now>>

store == <<users, subscriptions, payments, sessions>>
gateway == <<gwCustomers, gwSubs>>

----------------------------------------------------------------------------
(* Bounds of the model *)

MaxInflight == 2
MaxNewUsers == 2
MaxSubs == 2
MaxPayments == 2
MaxSessions == 2
MaxCustomers == 2
MaxNow == 8

----------------------------------------------------------------------------
(* Values *)

\* a nullable column holds <<>> (NULL) or <<v>>
NULL == <<>>
Some(v) == <<v>>
ValueOf(c) == c[1]

\* a success body has no error member
NoError == ""

eLower == <<"a", "@", "x", ".", "c">>
eUpper == <<"A", "@", "x", ".", "c">>
eOther == <<"b", "@", "x", ".", "c">>
eNoAt == <<"a", "x">>
eTab == <<"a", "\t", "b", "@", "x", ".", "c">>
eEmpty == <<>>
\* a capital letter outside ASCII whose lower case is two characters
eDotted == <<"U+0130", "@", "x", ".", "c">>

eJohn == <<"j","o","h","n","@","s","h","e","n","g","e","n","c","a","l","c",".","c","o","m">>
eChristine == <<"c","h","r","i","s","t","i","n","e","@","s","h","e","n","g","e","n","c","a","l","c",".","c","o","m">>

ValidEmails == {eLower, eUpper, eOther}

pwGood == <<"p","a","s","s","w","o","r","d","1">>
pwWrong == <<"w","r","o","n","g">>
pwEmpty == <<>>
\* four characters outside the Basic Multilingual Plane: eight code units
pwAstral == <<"U+D83D", "U+DE00", "U+D83D", "U+DE00", "U+D83D", "U+DE00", "U+D83D", "U+DE00">>

\* the request bodies sent to /api/auth/register: the valid ones, and one for
\* each way validation rejects a body
RegisterInputs ==
    {[email |-> e, firstName |-> "A", lastName |-> "B", password |-> pwGood] : e \in ValidEmails}
    \cup {[email |-> eEmpty, firstName |-> "A", lastName |-> "B", password |-> pwGood],
          [email |-> eDotted, firstName |-> "A", lastName |-> "B", password |-> pwGood],
          [email |-> eLower, firstName |-> "", lastName |-> "", password |-> pwGood],
          [email |-> eNoAt, firstName |-> "A", lastName |-> "B", password |-> pwGood],
          [email |-> eTab, firstName |-> "A", lastName |-> "B", password |-> pwGood],
          [email |-> eLower, firstName |-> "A", lastName |-> "B", password |-> pwWrong],
          [email |-> eOther, firstName |-> "A", lastName |-> "B", password |-> pwAstral]}

\* the request bodies sent to /api/auth/login: for the emails that register
\* is given, for the email of a user that has no password, and one that
\* validation rejects
LoginInputs ==
    {[email |-> e, password |-> p] : e \in ValidEmails, p \in {pwGood, pwWrong}}
    \cup {[email |-> eJohn, password |-> pwGood],
          [email |-> eLower, password |-> pwEmpty]}

\* SUBSCRIPTION_PLANS
SUBSCRIPTION_PLANS ==
    [pro_monthly |-> [planType |-> "pro-monthly", planName |-> "Pro Plan", frequency |-> "MONTHLY", price |-> 299],
     pro_annual |-> [planType |-> "pro-annual", planName |-> "Pro Plan", frequency |-> "ANNUALLY", price |-> 2400],
     business_monthly |-> [planType |-> "business-monthly", planName |-> "Business Plan", frequency |-> "MONTHLY", price |-> 1000],
     business_annual |-> [planType |-> "business-annual", planName |-> "Business Plan", frequency |-> "ANNUALLY", price |-> 10000]]

PlanTypes == {SUBSCRIPTION_PLANS[k].planType : k \in DOMAIN SUBSCRIPTION_PLANS}

\* the members SUBSCRIPTION_PLANS inherits from Object.prototype
ObjectPrototypeMembers ==
    {"constructor", "hasOwnProperty", "isPrototypeOf", "propertyIsEnumerable",
     "toLocaleString", "toString", "valueOf", "__proto__", "__defineGetter__",
     "__defineSetter__", "__lookupGetter__", "__lookupSetter__"}

\* the value of a member that an object does not have
undefined == "undefined"

\* !SUBSCRIPTION_PLANS[requestData.planType] is false: a property lookup,
\* which finds the plans and the inherited members
PlanFound(planType) == planType \in PlanTypes \cup ObjectPrototypeMembers

\* SUBSCRIPTION_PLANS[planType]: a plan, or an inherited member, which has
\* no planName, frequency or price
PlanInfo(planType) ==
    IF planType \in PlanTypes
    THEN LET k == CHOOSE k \in DOMAIN SUBSCRIPTION_PLANS :
                      SUBSCRIPTION_PLANS[k].planType = planType
         IN SUBSCRIPTION_PLANS[k]
    ELSE [planType |-> planType, planName |-> undefined, frequency |-> undefined,
          price |-> undefined]

\* the request bodies sent to /api/create-subscription, for the given emails
\* and plan types, and one for each way validation rejects a body
CreateSubscriptionInputs(emails, planTypes) ==
    {[email |-> e, firstName |-> "A", lastName |-> "B", planType |-> p, paymentToken |-> "tok"] :
        e \in emails, p \in planTypes}
    \cup {[email |-> eLower, firstName |-> "A", lastName |-> "B", planType |-> "gold", paymentToken |-> "tok"],
          [email |-> eLower, firstName |-> "A", lastName |-> "B", planType |-> "pro-monthly", paymentToken |-> ""]}

\* what the gateway answers
LocationResults == {"active", "none", "fail"}
CreateStatuses == {"ACTIVE", "PENDING"}
WebhookStatuses == {"ACTIVE", "CANCELED", "PAUSED", "DEACTIVATED"}

\* invoices of the gateway: with totalMoney, without it, and with one whose
\* currency is the empty string
Invoices ==
    {[id |-> "inv1", totalMoney |-> Some([amount |-> 299, currency |-> "GBP"])],
     [id |-> "inv2", totalMoney |-> NULL],
     [id |-> "inv3", totalMoney |-> Some([amount |-> 5, currency |-> ""])]}

\* what the store does with a bound parameter that is undefined
UndefinedBinds == {"throws", "null"}

\* A string is the sequence of its UTF-16 code units, as in the runtime, so
\* that Len is the length property. A code unit that is a printable ASCII
\* character is written as that character; any other (and the grave accent)
\* is written by its number, as in "U+00E9". A character outside the Basic
\* Multilingual Plane is the two code units of its surrogate pair.
HighSurrogates ==
    {
     "U+D800", "U+D801", "U+D802", "U+D803", "U+D804", "U+D805", "U+D806", "U+D807", "U+D808",
     "U+D809", "U+D80A", "U+D80B", "U+D80C", "U+D80D", "U+D80E", "U+D80F", "U+D810", "U+D811",
     "U+D812", "U+D813", "U+D814", "U+D815", "U+D816", "U+D817", "U+D818", "U+D819", "U+D81A",
     "U+D81B", "U+D81C", "U+D81D", "U+D81E", "U+D81F", "U+D820", "U+D821", "U+D822", "U+D823",
     "U+D824", "U+D825", "U+D826", "U+D827", "U+D828", "U+D829", "U+D82A", "U+D82B", "U+D82C",
     "U+D82D", "U+D82E", "U+D82F", "U+D830", "U+D831", "U+D832", "U+D833", "U+D834", "U+D835",
     "U+D836", "U+D837", "U+D838", "U+D839", "U+D83A", "U+D83B", "U+D83C", "U+D83D", "U+D83E",
     "U+D83F", "U+D840", "U+D841", "U+D842", "U+D843", "U+D844", "U+D845", "U+D846", "U+D847",
     "U+D848", "U+D849", "U+D84A", "U+D84B", "U+D84C", "U+D84D", "U+D84E", "U+D84F", "U+D850",
     "U+D851", "U+D852", "U+D853", "U+D854", "U+D855", "U+D856", "U+D857", "U+D858", "U+D859",
     "U+D85A", "U+D85B", "U+D85C", "U+D85D", "U+D85E", "U+D85F", "U+D860", "U+D861", "U+D862",
     "U+D863", "U+D864", "U+D865", "U+D866", "U+D867", "U+D868", "U+D869", "U+D86A", "U+D86B",
     "U+D86C", "U+D86D", "U+D86E", "U+D86F", "U+D870", "U+D871", "U+D872", "U+D873", "U+D874",
     "U+D875", "U+D876", "U+D877", "U+D878", "U+D879", "U+D87A", "U+D87B", "U+D87C", "U+D87D",
     "U+D87E", "U+D87F", "U+D880", "U+D881", "U+D882", "U+D883", "U+D884", "U+D885", "U+D886",
     "U+D887", "U+D888", "U+D889", "U+D88A", "U+D88B", "U+D88C", "U+D88D", "U+D88E", "U+D88F",
     "U+D890", "U+D891", "U+D892", "U+D893", "U+D894", "U+D895", "U+D896", "U+D897", "U+D898",
     "U+D899", "U+D89A", "U+D89B", "U+D89C", "U+D89D", "U+D89E", "U+D89F", "U+D8A0", "U+D8A1",
     "U+D8A2", "U+D8A3", "U+D8A4", "U+D8A5", "U+D8A6", "U+D8A7", "U+D8A8", "U+D8A9", "U+D8AA",
     "U+D8AB", "U+D8AC", "U+D8AD", "U+D8AE", "U+D8AF", "U+D8B0", "U+D8B1", "U+D8B2", "U+D8B3",
     "U+D8B4", "U+D8B5", "U+D8B6", "U+D8B7", "U+D8B8", "U+D8B9", "U+D8BA", "U+D8BB", "U+D8BC",
     "U+D8BD", "U+D8BE", "U+D8BF", "U+D8C0", "U+D8C1", "U+D8C2", "U+D8C3", "U+D8C4", "U+D8C5",
     "U+D8C6", "U+D8C7", "U+D8C8", "U+D8C9", "U+D8CA", "U+D8CB", "U+D8CC", "U+D8CD", "U+D8CE",
     "U+D8CF", "U+D8D0", "U+D8D1", "U+D8D2", "U+D8D3", "U+D8D4", "U+D8D5", "U+D8D6", "U+D8D7",
     "U+D8D8", "U+D8D9", "U+D8DA", "U+D8DB", "U+D8DC", "U+D8DD", "U+D8DE", "U+D8DF", "U+D8E0",
     "U+D8E1", "U+D8E2", "U+D8E3", "U+D8E4", "U+D8E5", "U+D8E6", "U+D8E7", "U+D8E8", "U+D8E9",
     "U+D8EA", "U+D8EB", "U+D8EC", "U+D8ED", "U+D8EE", "U+D8EF", "U+D8F0", "U+D8F1", "U+D8F2",
     "U+D8F3", "U+D8F4", "U+D8F5", "U+D8F6", "U+D8F7", "U+D8F8", "U+D8F9", "U+D8FA", "U+D8FB",
     "U+D8FC", "U+D8FD", "U+D8FE", "U+D8FF", "U+D900", "U+D901", "U+D902", "U+D903", "U+D904",
     "U+D905", "U+D906", "U+D907", "U+D908", "U+D909", "U+D90A", "U+D90B", "U+D90C", "U+D90D",
     "U+D90E", "U+D90F", "U+D910", "U+D911", "U+D912", "U+D913", "U+D914", "U+D915", "U+D916",
     "U+D917", "U+D918", "U+D919", "U+D91A", "U+D91B", "U+D91C", "U+D91D", "U+D91E", "U+D91F",
     "U+D920", "U+D921", "U+D922", "U+D923", "U+D924", "U+D925", "U+D926", "U+D927", "U+D928",
     "U+D929", "U+D92A", "U+D92B", "U+D92C", "U+D92D", "U+D92E", "U+D92F", "U+D930", "U+D931",
     "U+D932", "U+D933", "U+D934", "U+D935", "U+D936", "U+D937", "U+D938", "U+D939", "U+D93A",
     "U+D93B", "U+D93C", "U+D93D", "U+D93E", "U+D93F", "U+D940", "U+D941", "U+D942", "U+D943",
     "U+D944", "U+D945", "U+D946", "U+D947", "U+D948", "U+D949", "U+D94A", "U+D94B", "U+D94C",
     "U+D94D", "U+D94E", "U+D94F", "U+D950", "U+D951", "U+D952", "U+D953", "U+D954", "U+D955",
     "U+D956", "U+D957", "U+D958", "U+D959", "U+D95A", "U+D95B", "U+D95C", "U+D95D", "U+D95E",
     "U+D95F", "U+D960", "U+D961", "U+D962", "U+D963", "U+D964", "U+D965", "U+D966", "U+D967",
     "U+D968", "U+D969", "U+D96A", "U+D96B", "U+D96C", "U+D96D", "U+D96E", "U+D96F", "U+D970",
     "U+D971", "U+D972", "U+D973", "U+D974", "U+D975", "U+D976", "U+D977", "U+D978", "U+D979",
     "U+D97A", "U+D97B", "U+D97C", "U+D97D", "U+D97E", "U+D97F", "U+D980", "U+D981", "U+D982",
     "U+D983", "U+D984", "U+D985", "U+D986", "U+D987", "U+D988", "U+D989", "U+D98A", "U+D98B",
     "U+D98C", "U+D98D", "U+D98E", "U+D98F", "U+D990", "U+D991", "U+D992", "U+D993", "U+D994",
     "U+D995", "U+D996", "U+D997", "U+D998", "U+D999", "U+D99A", "U+D99B", "U+D99C", "U+D99D",
     "U+D99E", "U+D99F", "U+D9A0", "U+D9A1", "U+D9A2", "U+D9A3", "U+D9A4", "U+D9A5", "U+D9A6",
     "U+D9A7", "U+D9A8", "U+D9A9", "U+D9AA", "U+D9AB", "U+D9AC", "U+D9AD", "U+D9AE", "U+D9AF",
     "U+D9B0", "U+D9B1", "U+D9B2", "U+D9B3", "U+D9B4", "U+D9B5", "U+D9B6", "U+D9B7", "U+D9B8",
     "U+D9B9", "U+D9BA", "U+D9BB", "U+D9BC", "U+D9BD", "U+D9BE", "U+D9BF", "U+D9C0", "U+D9C1",
     "U+D9C2", "U+D9C3", "U+D9C4", "U+D9C5", "U+D9C6", "U+D9C7", "U+D9C8", "U+D9C9", "U+D9CA",
     "U+D9CB", "U+D9CC", "U+D9CD", "U+D9CE", "U+D9CF", "U+D9D0", "U+D9D1", "U+D9D2", "U+D9D3",
     "U+D9D4", "U+D9D5", "U+D9D6", "U+D9D7", "U+D9D8", "U+D9D9", "U+D9DA", "U+D9DB", "U+D9DC",
     "U+D9DD", "U+D9DE", "U+D9DF", "U+D9E0", "U+D9E1", "U+D9E2", "U+D9E3", "U+D9E4", "U+D9E5",
     "U+D9E6", "U+D9E7", "U+D9E8", "U+D9E9", "U+D9EA", "U+D9EB", "U+D9EC", "U+D9ED", "U+D9EE",
     "U+D9EF", "U+D9F0", "U+D9F1", "U+D9F2", "U+D9F3", "U+D9F4", "U+D9F5", "U+D9F6", "U+D9F7",
     "U+D9F8", "U+D9F9", "U+D9FA", "U+D9FB", "U+D9FC", "U+D9FD", "U+D9FE", "U+D9FF", "U+DA00",
     "U+DA01", "U+DA02", "U+DA03", "U+DA04", "U+DA05", "U+DA06", "U+DA07", "U+DA08", "U+DA09",
     "U+DA0A", "U+DA0B", "U+DA0C", "U+DA0D", "U+DA0E", "U+DA0F", "U+DA10", "U+DA11", "U+DA12",
     "U+DA13", "U+DA14", "U+DA15", "U+DA16", "U+DA17", "U+DA18", "U+DA19", "U+DA1A", "U+DA1B",
     "U+DA1C", "U+DA1D", "U+DA1E", "U+DA1F", "U+DA20", "U+DA21", "U+DA22", "U+DA23", "U+DA24",
     "U+DA25", "U+DA26", "U+DA27", "U+DA28", "U+DA29", "U+DA2A", "U+DA2B", "U+DA2C", "U+DA2D",
     "U+DA2E", "U+DA2F", "U+DA30", "U+DA31", "U+DA32", "U+DA33", "U+DA34", "U+DA35", "U+DA36",
     "U+DA37", "U+DA38", "U+DA39", "U+DA3A", "U+DA3B", "U+DA3C", "U+DA3D", "U+DA3E", "U+DA3F",
     "U+DA40", "U+DA41", "U+DA42", "U+DA43", "U+DA44", "U+DA45", "U+DA46", "U+DA47", "U+DA48",
     "U+DA49", "U+DA4A", "U+DA4B", "U+DA4C", "U+DA4D", "U+DA4E", "U+DA4F", "U+DA50", "U+DA51",
     "U+DA52", "U+DA53", "U+DA54", "U+DA55", "U+DA56", "U+DA57", "U+DA58", "U+DA59", "U+DA5A",
     "U+DA5B", "U+DA5C", "U+DA5D", "U+DA5E", "U+DA5F", "U+DA60", "U+DA61", "U+DA62", "U+DA63",
     "U+DA64", "U+DA65", "U+DA66", "U+DA67", "U+DA68", "U+DA69", "U+DA6A", "U+DA6B", "U+DA6C",
     "U+DA6D", "U+DA6E", "U+DA6F", "U+DA70", "U+DA71", "U+DA72", "U+DA73", "U+DA74", "U+DA75",
     "U+DA76", "U+DA77", "U+DA78", "U+DA79", "U+DA7A", "U+DA7B", "U+DA7C", "U+DA7D", "U+DA7E",
     "U+DA7F", "U+DA80", "U+DA81", "U+DA82", "U+DA83", "U+DA84", "U+DA85", "U+DA86", "U+DA87",
     "U+DA88", "U+DA89", "U+DA8A", "U+DA8B", "U+DA8C", "U+DA8D", "U+DA8E", "U+DA8F", "U+DA90",
     "U+DA91", "U+DA92", "U+DA93", "U+DA94", "U+DA95", "U+DA96", "U+DA97", "U+DA98", "U+DA99",
     "U+DA9A", "U+DA9B", "U+DA9C", "U+DA9D", "U+DA9E", "U+DA9F", "U+DAA0", "U+DAA1", "U+DAA2",
     "U+DAA3", "U+DAA4", "U+DAA5", "U+DAA6", "U+DAA7", "U+DAA8", "U+DAA9", "U+DAAA", "U+DAAB",
     "U+DAAC", "U+DAAD", "U+DAAE", "U+DAAF", "U+DAB0", "U+DAB1", "U+DAB2", "U+DAB3", "U+DAB4",
     "U+DAB5", "U+DAB6", "U+DAB7", "U+DAB8", "U+DAB9", "U+DABA", "U+DABB", "U+DABC", "U+DABD",
     "U+DABE", "U+DABF", "U+DAC0", "U+DAC1", "U+DAC2", "U+DAC3", "U+DAC4", "U+DAC5", "U+DAC6",
     "U+DAC7", "U+DAC8", "U+DAC9", "U+DACA", "U+DACB", "U+DACC", "U+DACD", "U+DACE", "U+DACF",
     "U+DAD0", "U+DAD1", "U+DAD2", "U+DAD3", "U+DAD4", "U+DAD5", "U+DAD6", "U+DAD7", "U+DAD8",
     "U+DAD9", "U+DADA", "U+DADB", "U+DADC", "U+DADD", "U+DADE", "U+DADF", "U+DAE0", "U+DAE1",
     "U+DAE2", "U+DAE3", "U+DAE4", "U+DAE5", "U+DAE6", "U+DAE7", "U+DAE8", "U+DAE9", "U+DAEA",
     "U+DAEB", "U+DAEC", "U+DAED", "U+DAEE", "U+DAEF", "U+DAF0", "U+DAF1", "U+DAF2", "U+DAF3",
     "U+DAF4", "U+DAF5", "U+DAF6", "U+DAF7", "U+DAF8", "U+DAF9", "U+DAFA", "U+DAFB", "U+DAFC",
     "U+DAFD", "U+DAFE", "U+DAFF", "U+DB00", "U+DB01", "U+DB02", "U+DB03", "U+DB04", "U+DB05",
     "U+DB06", "U+DB07", "U+DB08", "U+DB09", "U+DB0A", "U+DB0B", "U+DB0C", "U+DB0D", "U+DB0E",
     "U+DB0F", "U+DB10", "U+DB11", "U+DB12", "U+DB13", "U+DB14", "U+DB15", "U+DB16", "U+DB17",
     "U+DB18", "U+DB19", "U+DB1A", "U+DB1B", "U+DB1C", "U+DB1D", "U+DB1E", "U+DB1F", "U+DB20",
     "U+DB21", "U+DB22", "U+DB23", "U+DB24", "U+DB25", "U+DB26", "U+DB27", "U+DB28", "U+DB29",
     "U+DB2A", "U+DB2B", "U+DB2C", "U+DB2D", "U+DB2E", "U+DB2F", "U+DB30", "U+DB31", "U+DB32",
     "U+DB33", "U+DB34", "U+DB35", "U+DB36", "U+DB37", "U+DB38", "U+DB39", "U+DB3A", "U+DB3B",
     "U+DB3C", "U+DB3D", "U+DB3E", "U+DB3F", "U+DB40", "U+DB41", "U+DB42", "U+DB43", "U+DB44",
     "U+DB45", "U+DB46", "U+DB47", "U+DB48", "U+DB49", "U+DB4A", "U+DB4B", "U+DB4C", "U+DB4D",
     "U+DB4E", "U+DB4F", "U+DB50", "U+DB51", "U+DB52", "U+DB53", "U+DB54", "U+DB55", "U+DB56",
     "U+DB57", "U+DB58", "U+DB59", "U+DB5A", "U+DB5B", "U+DB5C", "U+DB5D", "U+DB5E", "U+DB5F",
     "U+DB60", "U+DB61", "U+DB62", "U+DB63", "U+DB64", "U+DB65", "U+DB66", "U+DB67", "U+DB68",
     "U+DB69", "U+DB6A", "U+DB6B", "U+DB6C", "U+DB6D", "U+DB6E", "U+DB6F", "U+DB70", "U+DB71",
     "U+DB72", "U+DB73", "U+DB74", "U+DB75", "U+DB76", "U+DB77", "U+DB78", "U+DB79", "U+DB7A",
     "U+DB7B", "U+DB7C", "U+DB7D", "U+DB7E", "U+DB7F", "U+DB80", "U+DB81", "U+DB82", "U+DB83",
     "U+DB84", "U+DB85", "U+DB86", "U+DB87", "U+DB88", "U+DB89", "U+DB8A", "U+DB8B", "U+DB8C",
     "U+DB8D", "U+DB8E", "U+DB8F", "U+DB90", "U+DB91", "U+DB92", "U+DB93", "U+DB94", "U+DB95",
     "U+DB96", "U+DB97", "U+DB98", "U+DB99", "U+DB9A", "U+DB9B", "U+DB9C", "U+DB9D", "U+DB9E",
     "U+DB9F", "U+DBA0", "U+DBA1", "U+DBA2", "U+DBA3", "U+DBA4", "U+DBA5", "U+DBA6", "U+DBA7",
     "U+DBA8", "U+DBA9", "U+DBAA", "U+DBAB", "U+DBAC", "U+DBAD", "U+DBAE", "U+DBAF", "U+DBB0",
     "U+DBB1", "U+DBB2", "U+DBB3", "U+DBB4", "U+DBB5", "U+DBB6", "U+DBB7", "U+DBB8", "U+DBB9",
     "U+DBBA", "U+DBBB", "U+DBBC", "U+DBBD", "U+DBBE", "U+DBBF", "U+DBC0", "U+DBC1", "U+DBC2",
     "U+DBC3", "U+DBC4", "U+DBC5", "U+DBC6", "U+DBC7", "U+DBC8", "U+DBC9", "U+DBCA", "U+DBCB",
     "U+DBCC", "U+DBCD", "U+DBCE", "U+DBCF", "U+DBD0", "U+DBD1", "U+DBD2", "U+DBD3", "U+DBD4",
     "U+DBD5", "U+DBD6", "U+DBD7", "U+DBD8", "U+DBD9", "U+DBDA", "U+DBDB", "U+DBDC", "U+DBDD",
     "U+DBDE", "U+DBDF", "U+DBE0", "U+DBE1", "U+DBE2", "U+DBE3", "U+DBE4", "U+DBE5", "U+DBE6",
     "U+DBE7", "U+DBE8", "U+DBE9", "U+DBEA", "U+DBEB", "U+DBEC", "U+DBED", "U+DBEE", "U+DBEF",
     "U+DBF0", "U+DBF1", "U+DBF2", "U+DBF3", "U+DBF4", "U+DBF5", "U+DBF6", "U+DBF7", "U+DBF8",
     "U+DBF9", "U+DBFA", "U+DBFB", "U+DBFC", "U+DBFD", "U+DBFE", "U+DBFF"
    }

LowSurrogates ==
    {
     "U+DC00", "U+DC01", "U+DC02", "U+DC03", "U+DC04", "U+DC05", "U+DC06", "U+DC07", "U+DC08",
     "U+DC09", "U+DC0A", "U+DC0B", "U+DC0C", "U+DC0D", "U+DC0E", "U+DC0F", "U+DC10", "U+DC11",
     "U+DC12", "U+DC13", "U+DC14", "U+DC15", "U+DC16", "U+DC17", "U+DC18", "U+DC19", "U+DC1A",
     "U+DC1B", "U+DC1C", "U+DC1D", "U+DC1E", "U+DC1F", "U+DC20", "U+DC21", "U+DC22", "U+DC23",
     "U+DC24", "U+DC25", "U+DC26", "U+DC27", "U+DC28", "U+DC29", "U+DC2A", "U+DC2B", "U+DC2C",
     "U+DC2D", "U+DC2E", "U+DC2F", "U+DC30", "U+DC31", "U+DC32", "U+DC33", "U+DC34", "U+DC35",
     "U+DC36", "U+DC37", "U+DC38", "U+DC39", "U+DC3A", "U+DC3B", "U+DC3C", "U+DC3D", "U+DC3E",
     "U+DC3F", "U+DC40", "U+DC41", "U+DC42", "U+DC43", "U+DC44", "U+DC45", "U+DC46", "U+DC47",
     "U+DC48", "U+DC49", "U+DC4A", "U+DC4B", "U+DC4C", "U+DC4D", "U+DC4E", "U+DC4F", "U+DC50",
     "U+DC51", "U+DC52", "U+DC53", "U+DC54", "U+DC55", "U+DC56", "U+DC57", "U+DC58", "U+DC59",
     "U+DC5A", "U+DC5B", "U+DC5C", "U+DC5D", "U+DC5E", "U+DC5F", "U+DC60", "U+DC61", "U+DC62",
     "U+DC63", "U+DC64", "U+DC65", "U+DC66", "U+DC67", "U+DC68", "U+DC69", "U+DC6A", "U+DC6B",
     "U+DC6C", "U+DC6D", "U+DC6E", "U+DC6F", "U+DC70", "U+DC71", "U+DC72", "U+DC73", "U+DC74",
     "U+DC75", "U+DC76", "U+DC77", "U+DC78", "U+DC79", "U+DC7A", "U+DC7B", "U+DC7C", "U+DC7D",
     "U+DC7E", "U+DC7F", "U+DC80", "U+DC81", "U+DC82", "U+DC83", "U+DC84", "U+DC85", "U+DC86",
     "U+DC87", "U+DC88", "U+DC89", "U+DC8A", "U+DC8B", "U+DC8C", "U+DC8D", "U+DC8E", "U+DC8F",
     "U+DC90", "U+DC91", "U+DC92", "U+DC93", "U+DC94", "U+DC95", "U+DC96", "U+DC97", "U+DC98",
     "U+DC99", "U+DC9A", "U+DC9B", "U+DC9C", "U+DC9D", "U+DC9E", "U+DC9F", "U+DCA0", "U+DCA1",
     "U+DCA2", "U+DCA3", "U+DCA4", "U+DCA5", "U+DCA6", "U+DCA7", "U+DCA8", "U+DCA9", "U+DCAA",
     "U+DCAB", "U+DCAC", "U+DCAD", "U+DCAE", "U+DCAF", "U+DCB0", "U+DCB1", "U+DCB2", "U+DCB3",
     "U+DCB4", "U+DCB5", "U+DCB6", "U+DCB7", "U+DCB8", "U+DCB9", "U+DCBA", "U+DCBB", "U+DCBC",
     "U+DCBD", "U+DCBE", "U+DCBF", "U+DCC0", "U+DCC1", "U+DCC2", "U+DCC3", "U+DCC4", "U+DCC5",
     "U+DCC6", "U+DCC7", "U+DCC8", "U+DCC9", "U+DCCA", "U+DCCB", "U+DCCC", "U+DCCD", "U+DCCE",
     "U+DCCF", "U+DCD0", "U+DCD1", "U+DCD2", "U+DCD3", "U+DCD4", "U+DCD5", "U+DCD6", "U+DCD7",
     "U+DCD8", "U+DCD9", "U+DCDA", "U+DCDB", "U+DCDC", "U+DCDD", "U+DCDE", "U+DCDF", "U+DCE0",
     "U+DCE1", "U+DCE2", "U+DCE3", "U+DCE4", "U+DCE5", "U+DCE6", "U+DCE7", "U+DCE8", "U+DCE9",
     "U+DCEA", "U+DCEB", "U+DCEC", "U+DCED", "U+DCEE", "U+DCEF", "U+DCF0", "U+DCF1", "U+DCF2",
     "U+DCF3", "U+DCF4", "U+DCF5", "U+DCF6", "U+DCF7", "U+DCF8", "U+DCF9", "U+DCFA", "U+DCFB",
     "U+DCFC", "U+DCFD", "U+DCFE", "U+DCFF", "U+DD00", "U+DD01", "U+DD02", "U+DD03", "U+DD04",
     "U+DD05", "U+DD06", "U+DD07", "U+DD08", "U+DD09", "U+DD0A", "U+DD0B", "U+DD0C", "U+DD0D",
     "U+DD0E", "U+DD0F", "U+DD10", "U+DD11", "U+DD12", "U+DD13", "U+DD14", "U+DD15", "U+DD16",
     "U+DD17", "U+DD18", "U+DD19", "U+DD1A", "U+DD1B", "U+DD1C", "U+DD1D", "U+DD1E", "U+DD1F",
     "U+DD20", "U+DD21", "U+DD22", "U+DD23", "U+DD24", "U+DD25", "U+DD26", "U+DD27", "U+DD28",
     "U+DD29", "U+DD2A", "U+DD2B", "U+DD2C", "U+DD2D", "U+DD2E", "U+DD2F", "U+DD30", "U+DD31",
     "U+DD32", "U+DD33", "U+DD34", "U+DD35", "U+DD36", "U+DD37", "U+DD38", "U+DD39", "U+DD3A",
     "U+DD3B", "U+DD3C", "U+DD3D", "U+DD3E", "U+DD3F", "U+DD40", "U+DD41", "U+DD42", "U+DD43",
     "U+DD44", "U+DD45", "U+DD46", "U+DD47", "U+DD48", "U+DD49", "U+DD4A", "U+DD4B", "U+DD4C",
     "U+DD4D", "U+DD4E", "U+DD4F", "U+DD50", "U+DD51", "U+DD52", "U+DD53", "U+DD54", "U+DD55",
     "U+DD56", "U+DD57", "U+DD58", "U+DD59", "U+DD5A", "U+DD5B", "U+DD5C", "U+DD5D", "U+DD5E",
     "U+DD5F", "U+DD60", "U+DD61", "U+DD62", "U+DD63", "U+DD64", "U+DD65", "U+DD66", "U+DD67",
     "U+DD68", "U+DD69", "U+DD6A", "U+DD6B", "U+DD6C", "U+DD6D", "U+DD6E", "U+DD6F", "U+DD70",
     "U+DD71", "U+DD72", "U+DD73", "U+DD74", "U+DD75", "U+DD76", "U+DD77", "U+DD78", "U+DD79",
     "U+DD7A", "U+DD7B", "U+DD7C", "U+DD7D", "U+DD7E", "U+DD7F", "U+DD80", "U+DD81", "U+DD82",
     "U+DD83", "U+DD84", "U+DD85", "U+DD86", "U+DD87", "U+DD88", "U+DD89", "U+DD8A", "U+DD8B",
     "U+DD8C", "U+DD8D", "U+DD8E", "U+DD8F", "U+DD90", "U+DD91", "U+DD92", "U+DD93", "U+DD94",
     "U+DD95", "U+DD96", "U+DD97", "U+DD98", "U+DD99", "U+DD9A", "U+DD9B", "U+DD9C", "U+DD9D",
     "U+DD9E", "U+DD9F", "U+DDA0", "U+DDA1", "U+DDA2", "U+DDA3", "U+DDA4", "U+DDA5", "U+DDA6",
     "U+DDA7", "U+DDA8", "U+DDA9", "U+DDAA", "U+DDAB", "U+DDAC", "U+DDAD", "U+DDAE", "U+DDAF",
     "U+DDB0", "U+DDB1", "U+DDB2", "U+DDB3", "U+DDB4", "U+DDB5", "U+DDB6", "U+DDB7", "U+DDB8",
     "U+DDB9", "U+DDBA", "U+DDBB", "U+DDBC", "U+DDBD", "U+DDBE", "U+DDBF", "U+DDC0", "U+DDC1",
     "U+DDC2", "U+DDC3", "U+DDC4", "U+DDC5", "U+DDC6", "U+DDC7", "U+DDC8", "U+DDC9", "U+DDCA",
     "U+DDCB", "U+DDCC", "U+DDCD", "U+DDCE", "U+DDCF", "U+DDD0", "U+DDD1", "U+DDD2", "U+DDD3",
     "U+DDD4", "U+DDD5", "U+DDD6", "U+DDD7", "U+DDD8", "U+DDD9", "U+DDDA", "U+DDDB", "U+DDDC",
     "U+DDDD", "U+DDDE", "U+DDDF", "U+DDE0", "U+DDE1", "U+DDE2", "U+DDE3", "U+DDE4", "U+DDE5",
     "U+DDE6", "U+DDE7", "U+DDE8", "U+DDE9", "U+DDEA", "U+DDEB", "U+DDEC", "U+DDED", "U+DDEE",
     "U+DDEF", "U+DDF0", "U+DDF1", "U+DDF2", "U+DDF3", "U+DDF4", "U+DDF5", "U+DDF6", "U+DDF7",
     "U+DDF8", "U+DDF9", "U+DDFA", "U+DDFB", "U+DDFC", "U+DDFD", "U+DDFE", "U+DDFF", "U+DE00",
     "U+DE01", "U+DE02", "U+DE03", "U+DE04", "U+DE05", "U+DE06", "U+DE07", "U+DE08", "U+DE09",
     "U+DE0A", "U+DE0B", "U+DE0C", "U+DE0D", "U+DE0E", "U+DE0F", "U+DE10", "U+DE11", "U+DE12",
     "U+DE13", "U+DE14", "U+DE15", "U+DE16", "U+DE17", "U+DE18", "U+DE19", "U+DE1A", "U+DE1B",
     "U+DE1C", "U+DE1D", "U+DE1E", "U+DE1F", "U+DE20", "U+DE21", "U+DE22", "U+DE23", "U+DE24",
     "U+DE25", "U+DE26", "U+DE27", "U+DE28", "U+DE29", "U+DE2A", "U+DE2B", "U+DE2C", "U+DE2D",
     "U+DE2E", "U+DE2F", "U+DE30", "U+DE31", "U+DE32", "U+DE33", "U+DE34", "U+DE35", "U+DE36",
     "U+DE37", "U+DE38", "U+DE39", "U+DE3A", "U+DE3B", "U+DE3C", "U+DE3D", "U+DE3E", "U+DE3F",
     "U+DE40", "U+DE41", "U+DE42", "U+DE43", "U+DE44", "U+DE45", "U+DE46", "U+DE47", "U+DE48",
     "U+DE49", "U+DE4A", "U+DE4B", "U+DE4C", "U+DE4D", "U+DE4E", "U+DE4F", "U+DE50", "U+DE51",
     "U+DE52", "U+DE53", "U+DE54", "U+DE55", "U+DE56", "U+DE57", "U+DE58", "U+DE59", "U+DE5A",
     "U+DE5B", "U+DE5C", "U+DE5D", "U+DE5E", "U+DE5F", "U+DE60", "U+DE61", "U+DE62", "U+DE63",
     "U+DE64", "U+DE65", "U+DE66", "U+DE67", "U+DE68", "U+DE69", "U+DE6A", "U+DE6B", "U+DE6C",
     "U+DE6D", "U+DE6E", "U+DE6F", "U+DE70", "U+DE71", "U+DE72", "U+DE73", "U+DE74", "U+DE75",
     "U+DE76", "U+DE77", "U+DE78", "U+DE79", "U+DE7A", "U+DE7B", "U+DE7C", "U+DE7D", "U+DE7E",
     "U+DE7F", "U+DE80", "U+DE81", "U+DE82", "U+DE83", "U+DE84", "U+DE85", "U+DE86", "U+DE87",
     "U+DE88", "U+DE89", "U+DE8A", "U+DE8B", "U+DE8C", "U+DE8D", "U+DE8E", "U+DE8F", "U+DE90",
     "U+DE91", "U+DE92", "U+DE93", "U+DE94", "U+DE95", "U+DE96", "U+DE97", "U+DE98", "U+DE99",
     "U+DE9A", "U+DE9B", "U+DE9C", "U+DE9D", "U+DE9E", "U+DE9F", "U+DEA0", "U+DEA1", "U+DEA2",
     "U+DEA3", "U+DEA4", "U+DEA5", "U+DEA6", "U+DEA7", "U+DEA8", "U+DEA9", "U+DEAA", "U+DEAB",
     "U+DEAC", "U+DEAD", "U+DEAE", "U+DEAF", "U+DEB0", "U+DEB1", "U+DEB2", "U+DEB3", "U+DEB4",
     "U+DEB5", "U+DEB6", "U+DEB7", "U+DEB8", "U+DEB9", "U+DEBA", "U+DEBB", "U+DEBC", "U+DEBD",
     "U+DEBE", "U+DEBF", "U+DEC0", "U+DEC1", "U+DEC2", "U+DEC3", "U+DEC4", "U+DEC5", "U+DEC6",
     "U+DEC7", "U+DEC8", "U+DEC9", "U+DECA", "U+DECB", "U+DECC", "U+DECD", "U+DECE", "U+DECF",
     "U+DED0", "U+DED1", "U+DED2", "U+DED3", "U+DED4", "U+DED5", "U+DED6", "U+DED7", "U+DED8",
     "U+DED9", "U+DEDA", "U+DEDB", "U+DEDC", "U+DEDD", "U+DEDE", "U+DEDF", "U+DEE0", "U+DEE1",
     "U+DEE2", "U+DEE3", "U+DEE4", "U+DEE5", "U+DEE6", "U+DEE7", "U+DEE8", "U+DEE9", "U+DEEA",
     "U+DEEB", "U+DEEC", "U+DEED", "U+DEEE", "U+DEEF", "U+DEF0", "U+DEF1", "U+DEF2", "U+DEF3",
     "U+DEF4", "U+DEF5", "U+DEF6", "U+DEF7", "U+DEF8", "U+DEF9", "U+DEFA", "U+DEFB", "U+DEFC",
     "U+DEFD", "U+DEFE", "U+DEFF", "U+DF00", "U+DF01", "U+DF02", "U+DF03", "U+DF04", "U+DF05",
     "U+DF06", "U+DF07", "U+DF08", "U+DF09", "U+DF0A", "U+DF0B", "U+DF0C", "U+DF0D", "U+DF0E",
     "U+DF0F", "U+DF10", "U+DF11", "U+DF12", "U+DF13", "U+DF14", "U+DF15", "U+DF16", "U+DF17",
     "U+DF18", "U+DF19", "U+DF1A", "U+DF1B", "U+DF1C", "U+DF1D", "U+DF1E", "U+DF1F", "U+DF20",
     "U+DF21", "U+DF22", "U+DF23", "U+DF24", "U+DF25", "U+DF26", "U+DF27", "U+DF28", "U+DF29",
     "U+DF2A", "U+DF2B", "U+DF2C", "U+DF2D", "U+DF2E", "U+DF2F", "U+DF30", "U+DF31", "U+DF32",
     "U+DF33", "U+DF34", "U+DF35", "U+DF36", "U+DF37", "U+DF38", "U+DF39", "U+DF3A", "U+DF3B",
     "U+DF3C", "U+DF3D", "U+DF3E", "U+DF3F", "U+DF40", "U+DF41", "U+DF42", "U+DF43", "U+DF44",
     "U+DF45", "U+DF46", "U+DF47", "U+DF48", "U+DF49", "U+DF4A", "U+DF4B", "U+DF4C", "U+DF4D",
     "U+DF4E", "U+DF4F", "U+DF50", "U+DF51", "U+DF52", "U+DF53", "U+DF54", "U+DF55", "U+DF56",
     "U+DF57", "U+DF58", "U+DF59", "U+DF5A", "U+DF5B", "U+DF5C", "U+DF5D", "U+DF5E", "U+DF5F",
     "U+DF60", "U+DF61", "U+DF62", "U+DF63", "U+DF64", "U+DF65", "U+DF66", "U+DF67", "U+DF68",
     "U+DF69", "U+DF6A", "U+DF6B", "U+DF6C", "U+DF6D", "U+DF6E", "U+DF6F", "U+DF70", "U+DF71",
     "U+DF72", "U+DF73", "U+DF74", "U+DF75", "U+DF76", "U+DF77", "U+DF78", "U+DF79", "U+DF7A",
     "U+DF7B", "U+DF7C", "U+DF7D", "U+DF7E", "U+DF7F", "U+DF80", "U+DF81", "U+DF82", "U+DF83",
     "U+DF84", "U+DF85", "U+DF86", "U+DF87", "U+DF88", "U+DF89", "U+DF8A", "U+DF8B", "U+DF8C",
     "U+DF8D", "U+DF8E", "U+DF8F", "U+DF90", "U+DF91", "U+DF92", "U+DF93", "U+DF94", "U+DF95",
     "U+DF96", "U+DF97", "U+DF98", "U+DF99", "U+DF9A", "U+DF9B", "U+DF9C", "U+DF9D", "U+DF9E",
     "U+DF9F", "U+DFA0", "U+DFA1", "U+DFA2", "U+DFA3", "U+DFA4", "U+DFA5", "U+DFA6", "U+DFA7",
     "U+DFA8", "U+DFA9", "U+DFAA", "U+DFAB", "U+DFAC", "U+DFAD", "U+DFAE", "U+DFAF", "U+DFB0",
     "U+DFB1", "U+DFB2", "U+DFB3", "U+DFB4", "U+DFB5", "U+DFB6", "U+DFB7", "U+DFB8", "U+DFB9",
     "U+DFBA", "U+DFBB", "U+DFBC", "U+DFBD", "U+DFBE", "U+DFBF", "U+DFC0", "U+DFC1", "U+DFC2",
     "U+DFC3", "U+DFC4", "U+DFC5", "U+DFC6", "U+DFC7", "U+DFC8", "U+DFC9", "U+DFCA", "U+DFCB",
     "U+DFCC", "U+DFCD", "U+DFCE", "U+DFCF", "U+DFD0", "U+DFD1", "U+DFD2", "U+DFD3", "U+DFD4",
     "U+DFD5", "U+DFD6", "U+DFD7", "U+DFD8", "U+DFD9", "U+DFDA", "U+DFDB", "U+DFDC", "U+DFDD",
     "U+DFDE", "U+DFDF", "U+DFE0", "U+DFE1", "U+DFE2", "U+DFE3", "U+DFE4", "U+DFE5", "U+DFE6",
     "U+DFE7", "U+DFE8", "U+DFE9", "U+DFEA", "U+DFEB", "U+DFEC", "U+DFED", "U+DFEE", "U+DFEF",
     "U+DFF0", "U+DFF1", "U+DFF2", "U+DFF3", "U+DFF4", "U+DFF5", "U+DFF6", "U+DFF7", "U+DFF8",
     "U+DFF9", "U+DFFA", "U+DFFB", "U+DFFC", "U+DFFD", "U+DFFE", "U+DFFF"
    }

\* the characters of one code unit that String.prototype.toLowerCase changes,
\* each followed by its lower case (the default case conversion of Unicode 17,
\* all locales alike)
LowerCaseMapping ==
    {
     <<"A", "a">>, <<"B", "b">>, <<"C", "c">>, <<"D", "d">>, <<"E", "e">>, <<"F", "f">>,
     <<"G", "g">>, <<"H", "h">>, <<"I", "i">>, <<"J", "j">>, <<"K", "k">>, <<"L", "l">>,
     <<"M", "m">>, <<"N", "n">>, <<"O", "o">>, <<"P", "p">>, <<"Q", "q">>, <<"R", "r">>,
     <<"S", "s">>, <<"T", "t">>, <<"U", "u">>, <<"V", "v">>, <<"W", "w">>, <<"X", "x">>,
     <<"Y", "y">>, <<"Z", "z">>, <<"U+00C0", "U+00E0">>, <<"U+00C1", "U+00E1">>,
     <<"U+00C2", "U+00E2">>, <<"U+00C3", "U+00E3">>, <<"U+00C4", "U+00E4">>,
     <<"U+00C5", "U+00E5">>, <<"U+00C6", "U+00E6">>, <<"U+00C7", "U+00E7">>,
     <<"U+00C8", "U+00E8">>, <<"U+00C9", "U+00E9">>, <<"U+00CA", "U+00EA">>,
     <<"U+00CB", "U+00EB">>, <<"U+00CC", "U+00EC">>, <<"U+00CD", "U+00ED">>,
     <<"U+00CE", "U+00EE">>, <<"U+00CF", "U+00EF">>, <<"U+00D0", "U+00F0">>,
     <<"U+00D1", "U+00F1">>, <<"U+00D2", "U+00F2">>, <<"U+00D3", "U+00F3">>,
     <<"U+00D4", "U+00F4">>, <<"U+00D5", "U+00F5">>, <<"U+00D6", "U+00F6">>,
     <<"U+00D8", "U+00F8">>, <<"U+00D9", "U+00F9">>, <<"U+00DA", "U+00FA">>,
     <<"U+00DB", "U+00FB">>, <<"U+00DC", "U+00FC">>, <<"U+00DD", "U+00FD">>,
     <<"U+00DE", "U+00FE">>, <<"U+0100", "U+0101">>, <<"U+0102", "U+0103">>,
     <<"U+0104", "U+0105">>, <<"U+0106", "U+0107">>, <<"U+0108", "U+0109">>,
     <<"U+010A", "U+010B">>, <<"U+010C", "U+010D">>, <<"U+010E", "U+010F">>,
     <<"U+0110", "U+0111">>, <<"U+0112", "U+0113">>, <<"U+0114", "U+0115">>,
     <<"U+0116", "U+0117">>, <<"U+0118", "U+0119">>, <<"U+011A", "U+011B">>,
     <<"U+011C", "U+011D">>, <<"U+011E", "U+011F">>, <<"U+0120", "U+0121">>,
     <<"U+0122", "U+0123">>, <<"U+0124", "U+0125">>, <<"U+0126", "U+0127">>,
     <<"U+0128", "U+0129">>, <<"U+012A", "U+012B">>, <<"U+012C", "U+012D">>,
     <<"U+012E", "U+012F">>, <<"U+0130", "i", "U+0307">>, <<"U+0132", "U+0133">>,
     <<"U+0134", "U+0135">>, <<"U+0136", "U+0137">>, <<"U+0139", "U+013A">>,
     <<"U+013B", "U+013C">>, <<"U+013D", "U+013E">>, <<"U+013F", "U+0140">>,
     <<"U+0141", "U+0142">>, <<"U+0143", "U+0144">>, <<"U+0145", "U+0146">>,
     <<"U+0147", "U+0148">>, <<"U+014A", "U+014B">>, <<"U+014C", "U+014D">>,
     <<"U+014E", "U+014F">>, <<"U+0150", "U+0151">>, <<"U+0152", "U+0153">>,
     <<"U+0154", "U+0155">>, <<"U+0156", "U+0157">>, <<"U+0158", "U+0159">>,
     <<"U+015A", "U+015B">>, <<"U+015C", "U+015D">>, <<"U+015E", "U+015F">>,
     <<"U+0160", "U+0161">>, <<"U+0162", "U+0163">>, <<"U+0164", "U+0165">>,
     <<"U+0166", "U+0167">>, <<"U+0168", "U+0169">>, <<"U+016A", "U+016B">>,
     <<"U+016C", "U+016D">>, <<"U+016E", "U+016F">>, <<"U+0170", "U+0171">>,
     <<"U+0172", "U+0173">>, <<"U+0174", "U+0175">>, <<"U+0176", "U+0177">>,
     <<"U+0178", "U+00FF">>, <<"U+0179", "U+017A">>, <<"U+017B", "U+017C">>,
     <<"U+017D", "U+017E">>, <<"U+0181", "U+0253">>, <<"U+0182", "U+0183">>,
     <<"U+0184", "U+0185">>, <<"U+0186", "U+0254">>, <<"U+0187", "U+0188">>,
     <<"U+0189", "U+0256">>, <<"U+018A", "U+0257">>, <<"U+018B", "U+018C">>,
     <<"U+018E", "U+01DD">>, <<"U+018F", "U+0259">>, <<"U+0190", "U+025B">>,
     <<"U+0191", "U+0192">>, <<"U+0193", "U+0260">>, <<"U+0194", "U+0263">>,
     <<"U+0196", "U+0269">>, <<"U+0197", "U+0268">>, <<"U+0198", "U+0199">>,
     <<"U+019C", "U+026F">>, <<"U+019D", "U+0272">>, <<"U+019F", "U+0275">>,
     <<"U+01A0", "U+01A1">>, <<"U+01A2", "U+01A3">>, <<"U+01A4", "U+01A5">>,
     <<"U+01A6", "U+0280">>, <<"U+01A7", "U+01A8">>, <<"U+01A9", "U+0283">>,
     <<"U+01AC", "U+01AD">>, <<"U+01AE", "U+0288">>, <<"U+01AF", "U+01B0">>,
     <<"U+01B1", "U+028A">>, <<"U+01B2", "U+028B">>, <<"U+01B3", "U+01B4">>,
     <<"U+01B5", "U+01B6">>, <<"U+01B7", "U+0292">>, <<"U+01B8", "U+01B9">>,
     <<"U+01BC", "U+01BD">>, <<"U+01C4", "U+01C6">>, <<"U+01C5", "U+01C6">>,
     <<"U+01C7", "U+01C9">>, <<"U+01C8", "U+01C9">>, <<"U+01CA", "U+01CC">>,
     <<"U+01CB", "U+01CC">>, <<"U+01CD", "U+01CE">>, <<"U+01CF", "U+01D0">>,
     <<"U+01D1", "U+01D2">>, <<"U+01D3", "U+01D4">>, <<"U+01D5", "U+01D6">>,
     <<"U+01D7", "U+01D8">>, <<"U+01D9", "U+01DA">>, <<"U+01DB", "U+01DC">>,
     <<"U+01DE", "U+01DF">>, <<"U+01E0", "U+01E1">>, <<"U+01E2", "U+01E3">>,
     <<"U+01E4", "U+01E5">>, <<"U+01E6", "U+01E7">>, <<"U+01E8", "U+01E9">>,
     <<"U+01EA", "U+01EB">>, <<"U+01EC", "U+01ED">>, <<"U+01EE", "U+01EF">>,
     <<"U+01F1", "U+01F3">>, <<"U+01F2", "U+01F3">>, <<"U+01F4", "U+01F5">>,
     <<"U+01F6", "U+0195">>, <<"U+01F7", "U+01BF">>, <<"U+01F8", "U+01F9">>,
     <<"U+01FA", "U+01FB">>, <<"U+01FC", "U+01FD">>, <<"U+01FE", "U+01FF">>,
     <<"U+0200", "U+0201">>, <<"U+0202", "U+0203">>, <<"U+0204", "U+0205">>,
     <<"U+0206", "U+0207">>, <<"U+0208", "U+0209">>, <<"U+020A", "U+020B">>,
     <<"U+020C", "U+020D">>, <<"U+020E", "U+020F">>, <<"U+0210", "U+0211">>,
     <<"U+0212", "U+0213">>, <<"U+0214", "U+0215">>, <<"U+0216", "U+0217">>,
     <<"U+0218", "U+0219">>, <<"U+021A", "U+021B">>, <<"U+021C", "U+021D">>,
     <<"U+021E", "U+021F">>, <<"U+0220", "U+019E">>, <<"U+0222", "U+0223">>,
     <<"U+0224", "U+0225">>, <<"U+0226", "U+0227">>, <<"U+0228", "U+0229">>,
     <<"U+022A", "U+022B">>, <<"U+022C", "U+022D">>, <<"U+022E", "U+022F">>,
     <<"U+0230", "U+0231">>, <<"U+0232", "U+0233">>, <<"U+023A", "U+2C65">>,
     <<"U+023B", "U+023C">>, <<"U+023D", "U+019A">>, <<"U+023E", "U+2C66">>,
     <<"U+0241", "U+0242">>, <<"U+0243", "U+0180">>, <<"U+0244", "U+0289">>,
     <<"U+0245", "U+028C">>, <<"U+0246", "U+0247">>, <<"U+0248", "U+0249">>,
     <<"U+024A", "U+024B">>, <<"U+024C", "U+024D">>, <<"U+024E", "U+024F">>,
     <<"U+0370", "U+0371">>, <<"U+0372", "U+0373">>, <<"U+0376", "U+0377">>,
     <<"U+037F", "U+03F3">>, <<"U+0386", "U+03AC">>, <<"U+0388", "U+03AD">>,
     <<"U+0389", "U+03AE">>, <<"U+038A", "U+03AF">>, <<"U+038C", "U+03CC">>,
     <<"U+038E", "U+03CD">>, <<"U+038F", "U+03CE">>, <<"U+0391", "U+03B1">>,
     <<"U+0392", "U+03B2">>, <<"U+0393", "U+03B3">>, <<"U+0394", "U+03B4">>,
     <<"U+0395", "U+03B5">>, <<"U+0396", "U+03B6">>, <<"U+0397", "U+03B7">>,
     <<"U+0398", "U+03B8">>, <<"U+0399", "U+03B9">>, <<"U+039A", "U+03BA">>,
     <<"U+039B", "U+03BB">>, <<"U+039C", "U+03BC">>, <<"U+039D", "U+03BD">>,
     <<"U+039E", "U+03BE">>, <<"U+039F", "U+03BF">>, <<"U+03A0", "U+03C0">>,
     <<"U+03A1", "U+03C1">>, <<"U+03A3", "U+03C3">>, <<"U+03A4", "U+03C4">>,
     <<"U+03A5", "U+03C5">>, <<"U+03A6", "U+03C6">>, <<"U+03A7", "U+03C7">>,
     <<"U+03A8", "U+03C8">>, <<"U+03A9", "U+03C9">>, <<"U+03AA", "U+03CA">>,
     <<"U+03AB", "U+03CB">>, <<"U+03CF", "U+03D7">>, <<"U+03D8", "U+03D9">>,
     <<"U+03DA", "U+03DB">>, <<"U+03DC", "U+03DD">>, <<"U+03DE", "U+03DF">>,
     <<"U+03E0", "U+03E1">>, <<"U+03E2", "U+03E3">>, <<"U+03E4", "U+03E5">>,
     <<"U+03E6", "U+03E7">>, <<"U+03E8", "U+03E9">>, <<"U+03EA", "U+03EB">>,
     <<"U+03EC", "U+03ED">>, <<"U+03EE", "U+03EF">>, <<"U+03F4", "U+03B8">>,
     <<"U+03F7", "U+03F8">>, <<"U+03F9", "U+03F2">>, <<"U+03FA", "U+03FB">>,
     <<"U+03FD", "U+037B">>, <<"U+03FE", "U+037C">>, <<"U+03FF", "U+037D">>,
     <<"U+0400", "U+0450">>, <<"U+0401", "U+0451">>, <<"U+0402", "U+0452">>,
     <<"U+0403", "U+0453">>, <<"U+0404", "U+0454">>, <<"U+0405", "U+0455">>,
     <<"U+0406", "U+0456">>, <<"U+0407", "U+0457">>, <<"U+0408", "U+0458">>,
     <<"U+0409", "U+0459">>, <<"U+040A", "U+045A">>, <<"U+040B", "U+045B">>,
     <<"U+040C", "U+045C">>, <<"U+040D", "U+045D">>, <<"U+040E", "U+045E">>,
     <<"U+040F", "U+045F">>, <<"U+0410", "U+0430">>, <<"U+0411", "U+0431">>,
     <<"U+0412", "U+0432">>, <<"U+0413", "U+0433">>, <<"U+0414", "U+0434">>,
     <<"U+0415", "U+0435">>, <<"U+0416", "U+0436">>, <<"U+0417", "U+0437">>,
     <<"U+0418", "U+0438">>, <<"U+0419", "U+0439">>, <<"U+041A", "U+043A">>,
     <<"U+041B", "U+043B">>, <<"U+041C", "U+043C">>, <<"U+041D", "U+043D">>,
     <<"U+041E", "U+043E">>, <<"U+041F", "U+043F">>, <<"U+0420", "U+0440">>,
     <<"U+0421", "U+0441">>, <<"U+0422", "U+0442">>, <<"U+0423", "U+0443">>,
     <<"U+0424", "U+0444">>, <<"U+0425", "U+0445">>, <<"U+0426", "U+0446">>,
     <<"U+0427", "U+0447">>, <<"U+0428", "U+0448">>, <<"U+0429", "U+0449">>,
     <<"U+042A", "U+044A">>, <<"U+042B", "U+044B">>, <<"U+042C", "U+044C">>,
     <<"U+042D", "U+044D">>, <<"U+042E", "U+044E">>, <<"U+042F", "U+044F">>,
     <<"U+0460", "U+0461">>, <<"U+0462", "U+0463">>, <<"U+0464", "U+0465">>,
     <<"U+0466", "U+0467">>, <<"U+0468", "U+0469">>, <<"U+046A", "U+046B">>,
     <<"U+046C", "U+046D">>, <<"U+046E", "U+046F">>, <<"U+0470", "U+0471">>,
     <<"U+0472", "U+0473">>, <<"U+0474", "U+0475">>, <<"U+0476", "U+0477">>,
     <<"U+0478", "U+0479">>, <<"U+047A", "U+047B">>, <<"U+047C", "U+047D">>,
     <<"U+047E", "U+047F">>, <<"U+0480", "U+0481">>, <<"U+048A", "U+048B">>,
     <<"U+048C", "U+048D">>, <<"U+048E", "U+048F">>, <<"U+0490", "U+0491">>,
     <<"U+0492", "U+0493">>, <<"U+0494", "U+0495">>, <<"U+0496", "U+0497">>,
     <<"U+0498", "U+0499">>, <<"U+049A", "U+049B">>, <<"U+049C", "U+049D">>,
     <<"U+049E", "U+049F">>, <<"U+04A0", "U+04A1">>, <<"U+04A2", "U+04A3">>,
     <<"U+04A4", "U+04A5">>, <<"U+04A6", "U+04A7">>, <<"U+04A8", "U+04A9">>,
     <<"U+04AA", "U+04AB">>, <<"U+04AC", "U+04AD">>, <<"U+04AE", "U+04AF">>,
     <<"U+04B0", "U+04B1">>, <<"U+04B2", "U+04B3">>, <<"U+04B4", "U+04B5">>,
     <<"U+04B6", "U+04B7">>, <<"U+04B8", "U+04B9">>, <<"U+04BA", "U+04BB">>,
     <<"U+04BC", "U+04BD">>, <<"U+04BE", "U+04BF">>, <<"U+04C0", "U+04CF">>,
     <<"U+04C1", "U+04C2">>, <<"U+04C3", "U+04C4">>, <<"U+04C5", "U+04C6">>,
     <<"U+04C7", "U+04C8">>, <<"U+04C9", "U+04CA">>, <<"U+04CB", "U+04CC">>,
     <<"U+04CD", "U+04CE">>, <<"U+04D0", "U+04D1">>, <<"U+04D2", "U+04D3">>,
     <<"U+04D4", "U+04D5">>, <<"U+04D6", "U+04D7">>, <<"U+04D8", "U+04D9">>,
     <<"U+04DA", "U+04DB">>, <<"U+04DC", "U+04DD">>, <<"U+04DE", "U+04DF">>,
     <<"U+04E0", "U+04E1">>, <<"U+04E2", "U+04E3">>, <<"U+04E4", "U+04E5">>,
     <<"U+04E6", "U+04E7">>, <<"U+04E8", "U+04E9">>, <<"U+04EA", "U+04EB">>,
     <<"U+04EC", "U+04ED">>, <<"U+04EE", "U+04EF">>, <<"U+04F0", "U+04F1">>,
     <<"U+04F2", "U+04F3">>, <<"U+04F4", "U+04F5">>, <<"U+04F6", "U+04F7">>,
     <<"U+04F8", "U+04F9">>, <<"U+04FA", "U+04FB">>, <<"U+04FC", "U+04FD">>,
     <<"U+04FE", "U+04FF">>, <<"U+0500", "U+0501">>, <<"U+0502", "U+0503">>,
     <<"U+0504", "U+0505">>, <<"U+0506", "U+0507">>, <<"U+0508", "U+0509">>,
     <<"U+050A", "U+050B">>, <<"U+050C", "U+050D">>, <<"U+050E", "U+050F">>,
     <<"U+0510", "U+0511">>, <<"U+0512", "U+0513">>, <<"U+0514", "U+0515">>,
     <<"U+0516", "U+0517">>, <<"U+0518", "U+0519">>, <<"U+051A", "U+051B">>,
     <<"U+051C", "U+051D">>, <<"U+051E", "U+051F">>, <<"U+0520", "U+0521">>,
     <<"U+0522", "U+0523">>, <<"U+0524", "U+0525">>, <<"U+0526", "U+0527">>,
     <<"U+0528", "U+0529">>, <<"U+052A", "U+052B">>, <<"U+052C", "U+052D">>,
     <<"U+052E", "U+052F">>, <<"U+0531", "U+0561">>, <<"U+0532", "U+0562">>,
     <<"U+0533", "U+0563">>, <<"U+0534", "U+0564">>, <<"U+0535", "U+0565">>,
     <<"U+0536", "U+0566">>, <<"U+0537", "U+0567">>, <<"U+0538", "U+0568">>,
     <<"U+0539", "U+0569">>, <<"U+053A", "U+056A">>, <<"U+053B", "U+056B">>,
     <<"U+053C", "U+056C">>, <<"U+053D", "U+056D">>, <<"U+053E", "U+056E">>,
     <<"U+053F", "U+056F">>, <<"U+0540", "U+0570">>, <<"U+0541", "U+0571">>,
     <<"U+0542", "U+0572">>, <<"U+0543", "U+0573">>, <<"U+0544", "U+0574">>,
     <<"U+0545", "U+0575">>, <<"U+0546", "U+0576">>, <<"U+0547", "U+0577">>,
     <<"U+0548", "U+0578">>, <<"U+0549", "U+0579">>, <<"U+054A", "U+057A">>,
     <<"U+054B", "U+057B">>, <<"U+054C", "U+057C">>, <<"U+054D", "U+057D">>,
     <<"U+054E", "U+057E">>, <<"U+054F", "U+057F">>, <<"U+0550", "U+0580">>,
     <<"U+0551", "U+0581">>, <<"U+0552", "U+0582">>, <<"U+0553", "U+0583">>,
     <<"U+0554", "U+0584">>, <<"U+0555", "U+0585">>, <<"U+0556", "U+0586">>,
     <<"U+10A0", "U+2D00">>, <<"U+10A1", "U+2D01">>, <<"U+10A2", "U+2D02">>,
     <<"U+10A3", "U+2D03">>, <<"U+10A4", "U+2D04">>, <<"U+10A5", "U+2D05">>,
     <<"U+10A6", "U+2D06">>, <<"U+10A7", "U+2D07">>, <<"U+10A8", "U+2D08">>,
     <<"U+10A9", "U+2D09">>, <<"U+10AA", "U+2D0A">>, <<"U+10AB", "U+2D0B">>,
     <<"U+10AC", "U+2D0C">>, <<"U+10AD", "U+2D0D">>, <<"U+10AE", "U+2D0E">>,
     <<"U+10AF", "U+2D0F">>, <<"U+10B0", "U+2D10">>, <<"U+10B1", "U+2D11">>,
     <<"U+10B2", "U+2D12">>, <<"U+10B3", "U+2D13">>, <<"U+10B4", "U+2D14">>,
     <<"U+10B5", "U+2D15">>, <<"U+10B6", "U+2D16">>, <<"U+10B7", "U+2D17">>,
     <<"U+10B8", "U+2D18">>, <<"U+10B9", "U+2D19">>, <<"U+10BA", "U+2D1A">>,
     <<"U+10BB", "U+2D1B">>, <<"U+10BC", "U+2D1C">>, <<"U+10BD", "U+2D1D">>,
     <<"U+10BE", "U+2D1E">>, <<"U+10BF", "U+2D1F">>, <<"U+10C0", "U+2D20">>,
     <<"U+10C1", "U+2D21">>, <<"U+10C2", "U+2D22">>, <<"U+10C3", "U+2D23">>,
     <<"U+10C4", "U+2D24">>, <<"U+10C5", "U+2D25">>, <<"U+10C7", "U+2D27">>,
     <<"U+10CD", "U+2D2D">>, <<"U+13A0", "U+AB70">>, <<"U+13A1", "U+AB71">>,
     <<"U+13A2", "U+AB72">>, <<"U+13A3", "U+AB73">>, <<"U+13A4", "U+AB74">>,
     <<"U+13A5", "U+AB75">>, <<"U+13A6", "U+AB76">>, <<"U+13A7", "U+AB77">>,
     <<"U+13A8", "U+AB78">>, <<"U+13A9", "U+AB79">>, <<"U+13AA", "U+AB7A">>,
     <<"U+13AB", "U+AB7B">>, <<"U+13AC", "U+AB7C">>, <<"U+13AD", "U+AB7D">>,
     <<"U+13AE", "U+AB7E">>, <<"U+13AF", "U+AB7F">>, <<"U+13B0", "U+AB80">>,
     <<"U+13B1", "U+AB81">>, <<"U+13B2", "U+AB82">>, <<"U+13B3", "U+AB83">>,
     <<"U+13B4", "U+AB84">>, <<"U+13B5", "U+AB85">>, <<"U+13B6", "U+AB86">>,
     <<"U+13B7", "U+AB87">>, <<"U+13B8", "U+AB88">>, <<"U+13B9", "U+AB89">>,
     <<"U+13BA", "U+AB8A">>, <<"U+13BB", "U+AB8B">>, <<"U+13BC", "U+AB8C">>,
     <<"U+13BD", "U+AB8D">>, <<"U+13BE", "U+AB8E">>, <<"U+13BF", "U+AB8F">>,
     <<"U+13C0", "U+AB90">>, <<"U+13C1", "U+AB91">>, <<"U+13C2", "U+AB92">>,
     <<"U+13C3", "U+AB93">>, <<"U+13C4", "U+AB94">>, <<"U+13C5", "U+AB95">>,
     <<"U+13C6", "U+AB96">>, <<"U+13C7", "U+AB97">>, <<"U+13C8", "U+AB98">>,
     <<"U+13C9", "U+AB99">>, <<"U+13CA", "U+AB9A">>, <<"U+13CB", "U+AB9B">>,
     <<"U+13CC", "U+AB9C">>, <<"U+13CD", "U+AB9D">>, <<"U+13CE", "U+AB9E">>,
     <<"U+13CF", "U+AB9F">>, <<"U+13D0", "U+ABA0">>, <<"U+13D1", "U+ABA1">>,
     <<"U+13D2", "U+ABA2">>, <<"U+13D3", "U+ABA3">>, <<"U+13D4", "U+ABA4">>,
     <<"U+13D5", "U+ABA5">>, <<"U+13D6", "U+ABA6">>, <<"U+13D7", "U+ABA7">>,
     <<"U+13D8", "U+ABA8">>, <<"U+13D9", "U+ABA9">>, <<"U+13DA", "U+ABAA">>,
     <<"U+13DB", "U+ABAB">>, <<"U+13DC", "U+ABAC">>, <<"U+13DD", "U+ABAD">>,
     <<"U+13DE", "U+ABAE">>, <<"U+13DF", "U+ABAF">>, <<"U+13E0", "U+ABB0">>,
     <<"U+13E1", "U+ABB1">>, <<"U+13E2", "U+ABB2">>, <<"U+13E3", "U+ABB3">>,
     <<"U+13E4", "U+ABB4">>, <<"U+13E5", "U+ABB5">>, <<"U+13E6", "U+ABB6">>,
     <<"U+13E7", "U+ABB7">>, <<"U+13E8", "U+ABB8">>, <<"U+13E9", "U+ABB9">>,
     <<"U+13EA", "U+ABBA">>, <<"U+13EB", "U+ABBB">>, <<"U+13EC", "U+ABBC">>,
     <<"U+13ED", "U+ABBD">>, <<"U+13EE", "U+ABBE">>, <<"U+13EF", "U+ABBF">>,
     <<"U+13F0", "U+13F8">>, <<"U+13F1", "U+13F9">>, <<"U+13F2", "U+13FA">>,
     <<"U+13F3", "U+13FB">>, <<"U+13F4", "U+13FC">>, <<"U+13F5", "U+13FD">>,
     <<"U+1C89", "U+1C8A">>, <<"U+1C90", "U+10D0">>, <<"U+1C91", "U+10D1">>,
     <<"U+1C92", "U+10D2">>, <<"U+1C93", "U+10D3">>, <<"U+1C94", "U+10D4">>,
     <<"U+1C95", "U+10D5">>, <<"U+1C96", "U+10D6">>, <<"U+1C97", "U+10D7">>,
     <<"U+1C98", "U+10D8">>, <<"U+1C99", "U+10D9">>, <<"U+1C9A", "U+10DA">>,
     <<"U+1C9B", "U+10DB">>, <<"U+1C9C", "U+10DC">>, <<"U+1C9D", "U+10DD">>,
     <<"U+1C9E", "U+10DE">>, <<"U+1C9F", "U+10DF">>, <<"U+1CA0", "U+10E0">>,
     <<"U+1CA1", "U+10E1">>, <<"U+1CA2", "U+10E2">>, <<"U+1CA3", "U+10E3">>,
     <<"U+1CA4", "U+10E4">>, <<"U+1CA5", "U+10E5">>, <<"U+1CA6", "U+10E6">>,
     <<"U+1CA7", "U+10E7">>, <<"U+1CA8", "U+10E8">>, <<"U+1CA9", "U+10E9">>,
     <<"U+1CAA", "U+10EA">>, <<"U+1CAB", "U+10EB">>, <<"U+1CAC", "U+10EC">>,
     <<"U+1CAD", "U+10ED">>, <<"U+1CAE", "U+10EE">>, <<"U+1CAF", "U+10EF">>,
     <<"U+1CB0", "U+10F0">>, <<"U+1CB1", "U+10F1">>, <<"U+1CB2", "U+10F2">>,
     <<"U+1CB3", "U+10F3">>, <<"U+1CB4", "U+10F4">>, <<"U+1CB5", "U+10F5">>,
     <<"U+1CB6", "U+10F6">>, <<"U+1CB7", "U+10F7">>, <<"U+1CB8", "U+10F8">>,
     <<"U+1CB9", "U+10F9">>, <<"U+1CBA", "U+10FA">>, <<"U+1CBD", "U+10FD">>,
     <<"U+1CBE", "U+10FE">>, <<"U+1CBF", "U+10FF">>, <<"U+1E00", "U+1E01">>,
     <<"U+1E02", "U+1E03">>, <<"U+1E04", "U+1E05">>, <<"U+1E06", "U+1E07">>,
     <<"U+1E08", "U+1E09">>, <<"U+1E0A", "U+1E0B">>, <<"U+1E0C", "U+1E0D">>,
     <<"U+1E0E", "U+1E0F">>, <<"U+1E10", "U+1E11">>, <<"U+1E12", "U+1E13">>,
     <<"U+1E14", "U+1E15">>, <<"U+1E16", "U+1E17">>, <<"U+1E18", "U+1E19">>,
     <<"U+1E1A", "U+1E1B">>, <<"U+1E1C", "U+1E1D">>, <<"U+1E1E", "U+1E1F">>,
     <<"U+1E20", "U+1E21">>, <<"U+1E22", "U+1E23">>, <<"U+1E24", "U+1E25">>,
     <<"U+1E26", "U+1E27">>, <<"U+1E28", "U+1E29">>, <<"U+1E2A", "U+1E2B">>,
     <<"U+1E2C", "U+1E2D">>, <<"U+1E2E", "U+1E2F">>, <<"U+1E30", "U+1E31">>,
     <<"U+1E32", "U+1E33">>, <<"U+1E34", "U+1E35">>, <<"U+1E36", "U+1E37">>,
     <<"U+1E38", "U+1E39">>, <<"U+1E3A", "U+1E3B">>, <<"U+1E3C", "U+1E3D">>,
     <<"U+1E3E", "U+1E3F">>, <<"U+1E40", "U+1E41">>, <<"U+1E42", "U+1E43">>,
     <<"U+1E44", "U+1E45">>, <<"U+1E46", "U+1E47">>, <<"U+1E48", "U+1E49">>,
     <<"U+1E4A", "U+1E4B">>, <<"U+1E4C", "U+1E4D">>, <<"U+1E4E", "U+1E4F">>,
     <<"U+1E50", "U+1E51">>, <<"U+1E52", "U+1E53">>, <<"U+1E54", "U+1E55">>,
     <<"U+1E56", "U+1E57">>, <<"U+1E58", "U+1E59">>, <<"U+1E5A", "U+1E5B">>,
     <<"U+1E5C", "U+1E5D">>, <<"U+1E5E", "U+1E5F">>, <<"U+1E60", "U+1E61">>,
     <<"U+1E62", "U+1E63">>, <<"U+1E64", "U+1E65">>, <<"U+1E66", "U+1E67">>,
     <<"U+1E68", "U+1E69">>, <<"U+1E6A", "U+1E6B">>, <<"U+1E6C", "U+1E6D">>,
     <<"U+1E6E", "U+1E6F">>, <<"U+1E70", "U+1E71">>, <<"U+1E72", "U+1E73">>,
     <<"U+1E74", "U+1E75">>, <<"U+1E76", "U+1E77">>, <<"U+1E78", "U+1E79">>,
     <<"U+1E7A", "U+1E7B">>, <<"U+1E7C", "U+1E7D">>, <<"U+1E7E", "U+1E7F">>,
     <<"U+1E80", "U+1E81">>, <<"U+1E82", "U+1E83">>, <<"U+1E84", "U+1E85">>,
     <<"U+1E86", "U+1E87">>, <<"U+1E88", "U+1E89">>, <<"U+1E8A", "U+1E8B">>,
     <<"U+1E8C", "U+1E8D">>, <<"U+1E8E", "U+1E8F">>, <<"U+1E90", "U+1E91">>,
     <<"U+1E92", "U+1E93">>, <<"U+1E94", "U+1E95">>, <<"U+1E9E", "U+00DF">>,
     <<"U+1EA0", "U+1EA1">>, <<"U+1EA2", "U+1EA3">>, <<"U+1EA4", "U+1EA5">>,
     <<"U+1EA6", "U+1EA7">>, <<"U+1EA8", "U+1EA9">>, <<"U+1EAA", "U+1EAB">>,
     <<"U+1EAC", "U+1EAD">>, <<"U+1EAE", "U+1EAF">>, <<"U+1EB0", "U+1EB1">>,
     <<"U+1EB2", "U+1EB3">>, <<"U+1EB4", "U+1EB5">>, <<"U+1EB6", "U+1EB7">>,
     <<"U+1EB8", "U+1EB9">>, <<"U+1EBA", "U+1EBB">>, <<"U+1EBC", "U+1EBD">>,
     <<"U+1EBE", "U+1EBF">>, <<"U+1EC0", "U+1EC1">>, <<"U+1EC2", "U+1EC3">>,
     <<"U+1EC4", "U+1EC5">>, <<"U+1EC6", "U+1EC7">>, <<"U+1EC8", "U+1EC9">>,
     <<"U+1ECA", "U+1ECB">>, <<"U+1ECC", "U+1ECD">>, <<"U+1ECE", "U+1ECF">>,
     <<"U+1ED0", "U+1ED1">>, <<"U+1ED2", "U+1ED3">>, <<"U+1ED4", "U+1ED5">>,
     <<"U+1ED6", "U+1ED7">>, <<"U+1ED8", "U+1ED9">>, <<"U+1EDA", "U+1EDB">>,
     <<"U+1EDC", "U+1EDD">>, <<"U+1EDE", "U+1EDF">>, <<"U+1EE0", "U+1EE1">>,
     <<"U+1EE2", "U+1EE3">>, <<"U+1EE4", "U+1EE5">>, <<"U+1EE6", "U+1EE7">>,
     <<"U+1EE8", "U+1EE9">>, <<"U+1EEA", "U+1EEB">>, <<"U+1EEC", "U+1EED">>,
     <<"U+1EEE", "U+1EEF">>, <<"U+1EF0", "U+1EF1">>, <<"U+1EF2", "U+1EF3">>,
     <<"U+1EF4", "U+1EF5">>, <<"U+1EF6", "U+1EF7">>, <<"U+1EF8", "U+1EF9">>,
     <<"U+1EFA", "U+1EFB">>, <<"U+1EFC", "U+1EFD">>, <<"U+1EFE", "U+1EFF">>,
     <<"U+1F08", "U+1F00">>, <<"U+1F09", "U+1F01">>, <<"U+1F0A", "U+1F02">>,
     <<"U+1F0B", "U+1F03">>, <<"U+1F0C", "U+1F04">>, <<"U+1F0D", "U+1F05">>,
     <<"U+1F0E", "U+1F06">>, <<"U+1F0F", "U+1F07">>, <<"U+1F18", "U+1F10">>,
     <<"U+1F19", "U+1F11">>, <<"U+1F1A", "U+1F12">>, <<"U+1F1B", "U+1F13">>,
     <<"U+1F1C", "U+1F14">>, <<"U+1F1D", "U+1F15">>, <<"U+1F28", "U+1F20">>,
     <<"U+1F29", "U+1F21">>, <<"U+1F2A", "U+1F22">>, <<"U+1F2B", "U+1F23">>,
     <<"U+1F2C", "U+1F24">>, <<"U+1F2D", "U+1F25">>, <<"U+1F2E", "U+1F26">>,
     <<"U+1F2F", "U+1F27">>, <<"U+1F38", "U+1F30">>, <<"U+1F39", "U+1F31">>,
     <<"U+1F3A", "U+1F32">>, <<"U+1F3B", "U+1F33">>, <<"U+1F3C", "U+1F34">>,
     <<"U+1F3D", "U+1F35">>, <<"U+1F3E", "U+1F36">>, <<"U+1F3F", "U+1F37">>,
     <<"U+1F48", "U+1F40">>, <<"U+1F49", "U+1F41">>, <<"U+1F4A", "U+1F42">>,
     <<"U+1F4B", "U+1F43">>, <<"U+1F4C", "U+1F44">>, <<"U+1F4D", "U+1F45">>,
     <<"U+1F59", "U+1F51">>, <<"U+1F5B", "U+1F53">>, <<"U+1F5D", "U+1F55">>,
     <<"U+1F5F", "U+1F57">>, <<"U+1F68", "U+1F60">>, <<"U+1F69", "U+1F61">>,
     <<"U+1F6A", "U+1F62">>, <<"U+1F6B", "U+1F63">>, <<"U+1F6C", "U+1F64">>,
     <<"U+1F6D", "U+1F65">>, <<"U+1F6E", "U+1F66">>, <<"U+1F6F", "U+1F67">>,
     <<"U+1F88", "U+1F80">>, <<"U+1F89", "U+1F81">>, <<"U+1F8A", "U+1F82">>,
     <<"U+1F8B", "U+1F83">>, <<"U+1F8C", "U+1F84">>, <<"U+1F8D", "U+1F85">>,
     <<"U+1F8E", "U+1F86">>, <<"U+1F8F", "U+1F87">>, <<"U+1F98", "U+1F90">>,
     <<"U+1F99", "U+1F91">>, <<"U+1F9A", "U+1F92">>, <<"U+1F9B", "U+1F93">>,
     <<"U+1F9C", "U+1F94">>, <<"U+1F9D", "U+1F95">>, <<"U+1F9E", "U+1F96">>,
     <<"U+1F9F", "U+1F97">>, <<"U+1FA8", "U+1FA0">>, <<"U+1FA9", "U+1FA1">>,
     <<"U+1FAA", "U+1FA2">>, <<"U+1FAB", "U+1FA3">>, <<"U+1FAC", "U+1FA4">>,
     <<"U+1FAD", "U+1FA5">>, <<"U+1FAE", "U+1FA6">>, <<"U+1FAF", "U+1FA7">>,
     <<"U+1FB8", "U+1FB0">>, <<"U+1FB9", "U+1FB1">>, <<"U+1FBA", "U+1F70">>,
     <<"U+1FBB", "U+1F71">>, <<"U+1FBC", "U+1FB3">>, <<"U+1FC8", "U+1F72">>,
     <<"U+1FC9", "U+1F73">>, <<"U+1FCA", "U+1F74">>, <<"U+1FCB", "U+1F75">>,
     <<"U+1FCC", "U+1FC3">>, <<"U+1FD8", "U+1FD0">>, <<"U+1FD9", "U+1FD1">>,
     <<"U+1FDA", "U+1F76">>, <<"U+1FDB", "U+1F77">>, <<"U+1FE8", "U+1FE0">>,
     <<"U+1FE9", "U+1FE1">>, <<"U+1FEA", "U+1F7A">>, <<"U+1FEB", "U+1F7B">>,
     <<"U+1FEC", "U+1FE5">>, <<"U+1FF8", "U+1F78">>, <<"U+1FF9", "U+1F79">>,
     <<"U+1FFA", "U+1F7C">>, <<"U+1FFB", "U+1F7D">>, <<"U+1FFC", "U+1FF3">>,
     <<"U+2126", "U+03C9">>, <<"U+212A", "k">>, <<"U+212B", "U+00E5">>, <<"U+2132", "U+214E">>,
     <<"U+2160", "U+2170">>, <<"U+2161", "U+2171">>, <<"U+2162", "U+2172">>,
     <<"U+2163", "U+2173">>, <<"U+2164", "U+2174">>, <<"U+2165", "U+2175">>,
     <<"U+2166", "U+2176">>, <<"U+2167", "U+2177">>, <<"U+2168", "U+2178">>,
     <<"U+2169", "U+2179">>, <<"U+216A", "U+217A">>, <<"U+216B", "U+217B">>,
     <<"U+216C", "U+217C">>, <<"U+216D", "U+217D">>, <<"U+216E", "U+217E">>,
     <<"U+216F", "U+217F">>, <<"U+2183", "U+2184">>, <<"U+24B6", "U+24D0">>,
     <<"U+24B7", "U+24D1">>, <<"U+24B8", "U+24D2">>, <<"U+24B9", "U+24D3">>,
     <<"U+24BA", "U+24D4">>, <<"U+24BB", "U+24D5">>, <<"U+24BC", "U+24D6">>,
     <<"U+24BD", "U+24D7">>, <<"U+24BE", "U+24D8">>, <<"U+24BF", "U+24D9">>,
     <<"U+24C0", "U+24DA">>, <<"U+24C1", "U+24DB">>, <<"U+24C2", "U+24DC">>,
     <<"U+24C3", "U+24DD">>, <<"U+24C4", "U+24DE">>, <<"U+24C5", "U+24DF">>,
     <<"U+24C6", "U+24E0">>, <<"U+24C7", "U+24E1">>, <<"U+24C8", "U+24E2">>,
     <<"U+24C9", "U+24E3">>, <<"U+24CA", "U+24E4">>, <<"U+24CB", "U+24E5">>,
     <<"U+24CC", "U+24E6">>, <<"U+24CD", "U+24E7">>, <<"U+24CE", "U+24E8">>,
     <<"U+24CF", "U+24E9">>, <<"U+2C00", "U+2C30">>, <<"U+2C01", "U+2C31">>,
     <<"U+2C02", "U+2C32">>, <<"U+2C03", "U+2C33">>, <<"U+2C04", "U+2C34">>,
     <<"U+2C05", "U+2C35">>, <<"U+2C06", "U+2C36">>, <<"U+2C07", "U+2C37">>,
     <<"U+2C08", "U+2C38">>, <<"U+2C09", "U+2C39">>, <<"U+2C0A", "U+2C3A">>,
     <<"U+2C0B", "U+2C3B">>, <<"U+2C0C", "U+2C3C">>, <<"U+2C0D", "U+2C3D">>,
     <<"U+2C0E", "U+2C3E">>, <<"U+2C0F", "U+2C3F">>, <<"U+2C10", "U+2C40">>,
     <<"U+2C11", "U+2C41">>, <<"U+2C12", "U+2C42">>, <<"U+2C13", "U+2C43">>,
     <<"U+2C14", "U+2C44">>, <<"U+2C15", "U+2C45">>, <<"U+2C16", "U+2C46">>,
     <<"U+2C17", "U+2C47">>, <<"U+2C18", "U+2C48">>, <<"U+2C19", "U+2C49">>,
     <<"U+2C1A", "U+2C4A">>, <<"U+2C1B", "U+2C4B">>, <<"U+2C1C", "U+2C4C">>,
     <<"U+2C1D", "U+2C4D">>, <<"U+2C1E", "U+2C4E">>, <<"U+2C1F", "U+2C4F">>,
     <<"U+2C20", "U+2C50">>, <<"U+2C21", "U+2C51">>, <<"U+2C22", "U+2C52">>,
     <<"U+2C23", "U+2C53">>, <<"U+2C24", "U+2C54">>, <<"U+2C25", "U+2C55">>,
     <<"U+2C26", "U+2C56">>, <<"U+2C27", "U+2C57">>, <<"U+2C28", "U+2C58">>,
     <<"U+2C29", "U+2C59">>, <<"U+2C2A", "U+2C5A">>, <<"U+2C2B", "U+2C5B">>,
     <<"U+2C2C", "U+2C5C">>, <<"U+2C2D", "U+2C5D">>, <<"U+2C2E", "U+2C5E">>,
     <<"U+2C2F", "U+2C5F">>, <<"U+2C60", "U+2C61">>, <<"U+2C62", "U+026B">>,
     <<"U+2C63", "U+1D7D">>, <<"U+2C64", "U+027D">>, <<"U+2C67", "U+2C68">>,
     <<"U+2C69", "U+2C6A">>, <<"U+2C6B", "U+2C6C">>, <<"U+2C6D", "U+0251">>,
     <<"U+2C6E", "U+0271">>, <<"U+2C6F", "U+0250">>, <<"U+2C70", "U+0252">>,
     <<"U+2C72", "U+2C73">>, <<"U+2C75", "U+2C76">>, <<"U+2C7E", "U+023F">>,
     <<"U+2C7F", "U+0240">>, <<"U+2C80", "U+2C81">>, <<"U+2C82", "U+2C83">>,
     <<"U+2C84", "U+2C85">>, <<"U+2C86", "U+2C87">>, <<"U+2C88", "U+2C89">>,
     <<"U+2C8A", "U+2C8B">>, <<"U+2C8C", "U+2C8D">>, <<"U+2C8E", "U+2C8F">>,
     <<"U+2C90", "U+2C91">>, <<"U+2C92", "U+2C93">>, <<"U+2C94", "U+2C95">>,
     <<"U+2C96", "U+2C97">>, <<"U+2C98", "U+2C99">>, <<"U+2C9A", "U+2C9B">>,
     <<"U+2C9C", "U+2C9D">>, <<"U+2C9E", "U+2C9F">>, <<"U+2CA0", "U+2CA1">>,
     <<"U+2CA2", "U+2CA3">>, <<"U+2CA4", "U+2CA5">>, <<"U+2CA6", "U+2CA7">>,
     <<"U+2CA8", "U+2CA9">>, <<"U+2CAA", "U+2CAB">>, <<"U+2CAC", "U+2CAD">>,
     <<"U+2CAE", "U+2CAF">>, <<"U+2CB0", "U+2CB1">>, <<"U+2CB2", "U+2CB3">>,
     <<"U+2CB4", "U+2CB5">>, <<"U+2CB6", "U+2CB7">>, <<"U+2CB8", "U+2CB9">>,
     <<"U+2CBA", "U+2CBB">>, <<"U+2CBC", "U+2CBD">>, <<"U+2CBE", "U+2CBF">>,
     <<"U+2CC0", "U+2CC1">>, <<"U+2CC2", "U+2CC3">>, <<"U+2CC4", "U+2CC5">>,
     <<"U+2CC6", "U+2CC7">>, <<"U+2CC8", "U+2CC9">>, <<"U+2CCA", "U+2CCB">>,
     <<"U+2CCC", "U+2CCD">>, <<"U+2CCE", "U+2CCF">>, <<"U+2CD0", "U+2CD1">>,
     <<"U+2CD2", "U+2CD3">>, <<"U+2CD4", "U+2CD5">>, <<"U+2CD6", "U+2CD7">>,
     <<"U+2CD8", "U+2CD9">>, <<"U+2CDA", "U+2CDB">>, <<"U+2CDC", "U+2CDD">>,
     <<"U+2CDE", "U+2CDF">>, <<"U+2CE0", "U+2CE1">>, <<"U+2CE2", "U+2CE3">>,
     <<"U+2CEB", "U+2CEC">>, <<"U+2CED", "U+2CEE">>, <<"U+2CF2", "U+2CF3">>,
     <<"U+A640", "U+A641">>, <<"U+A642", "U+A643">>, <<"U+A644", "U+A645">>,
     <<"U+A646", "U+A647">>, <<"U+A648", "U+A649">>, <<"U+A64A", "U+A64B">>,
     <<"U+A64C", "U+A64D">>, <<"U+A64E", "U+A64F">>, <<"U+A650", "U+A651">>,
     <<"U+A652", "U+A653">>, <<"U+A654", "U+A655">>, <<"U+A656", "U+A657">>,
     <<"U+A658", "U+A659">>, <<"U+A65A", "U+A65B">>, <<"U+A65C", "U+A65D">>,
     <<"U+A65E", "U+A65F">>, <<"U+A660", "U+A661">>, <<"U+A662", "U+A663">>,
     <<"U+A664", "U+A665">>, <<"U+A666", "U+A667">>, <<"U+A668", "U+A669">>,
     <<"U+A66A", "U+A66B">>, <<"U+A66C", "U+A66D">>, <<"U+A680", "U+A681">>,
     <<"U+A682", "U+A683">>, <<"U+A684", "U+A685">>, <<"U+A686", "U+A687">>,
     <<"U+A688", "U+A689">>, <<"U+A68A", "U+A68B">>, <<"U+A68C", "U+A68D">>,
     <<"U+A68E", "U+A68F">>, <<"U+A690", "U+A691">>, <<"U+A692", "U+A693">>,
     <<"U+A694", "U+A695">>, <<"U+A696", "U+A697">>, <<"U+A698", "U+A699">>,
     <<"U+A69A", "U+A69B">>, <<"U+A722", "U+A723">>, <<"U+A724", "U+A725">>,
     <<"U+A726", "U+A727">>, <<"U+A728", "U+A729">>, <<"U+A72A", "U+A72B">>,
     <<"U+A72C", "U+A72D">>, <<"U+A72E", "U+A72F">>, <<"U+A732", "U+A733">>,
     <<"U+A734", "U+A735">>, <<"U+A736", "U+A737">>, <<"U+A738", "U+A739">>,
     <<"U+A73A", "U+A73B">>, <<"U+A73C", "U+A73D">>, <<"U+A73E", "U+A73F">>,
     <<"U+A740", "U+A741">>, <<"U+A742", "U+A743">>, <<"U+A744", "U+A745">>,
     <<"U+A746", "U+A747">>, <<"U+A748", "U+A749">>, <<"U+A74A", "U+A74B">>,
     <<"U+A74C", "U+A74D">>, <<"U+A74E", "U+A74F">>, <<"U+A750", "U+A751">>,
     <<"U+A752", "U+A753">>, <<"U+A754", "U+A755">>, <<"U+A756", "U+A757">>,
     <<"U+A758", "U+A759">>, <<"U+A75A", "U+A75B">>, <<"U+A75C", "U+A75D">>,
     <<"U+A75E", "U+A75F">>, <<"U+A760", "U+A761">>, <<"U+A762", "U+A763">>,
     <<"U+A764", "U+A765">>, <<"U+A766", "U+A767">>, <<"U+A768", "U+A769">>,
     <<"U+A76A", "U+A76B">>, <<"U+A76C", "U+A76D">>, <<"U+A76E", "U+A76F">>,
     <<"U+A779", "U+A77A">>, <<"U+A77B", "U+A77C">>, <<"U+A77D", "U+1D79">>,
     <<"U+A77E", "U+A77F">>, <<"U+A780", "U+A781">>, <<"U+A782", "U+A783">>,
     <<"U+A784", "U+A785">>, <<"U+A786", "U+A787">>, <<"U+A78B", "U+A78C">>,
     <<"U+A78D", "U+0265">>, <<"U+A790", "U+A791">>, <<"U+A792", "U+A793">>,
     <<"U+A796", "U+A797">>, <<"U+A798", "U+A799">>, <<"U+A79A", "U+A79B">>,
     <<"U+A79C", "U+A79D">>, <<"U+A79E", "U+A79F">>, <<"U+A7A0", "U+A7A1">>,
     <<"U+A7A2", "U+A7A3">>, <<"U+A7A4", "U+A7A5">>, <<"U+A7A6", "U+A7A7">>,
     <<"U+A7A8", "U+A7A9">>, <<"U+A7AA", "U+0266">>, <<"U+A7AB", "U+025C">>,
     <<"U+A7AC", "U+0261">>, <<"U+A7AD", "U+026C">>, <<"U+A7AE", "U+026A">>,
     <<"U+A7B0", "U+029E">>, <<"U+A7B1", "U+0287">>, <<"U+A7B2", "U+029D">>,
     <<"U+A7B3", "U+AB53">>, <<"U+A7B4", "U+A7B5">>, <<"U+A7B6", "U+A7B7">>,
     <<"U+A7B8", "U+A7B9">>, <<"U+A7BA", "U+A7BB">>, <<"U+A7BC", "U+A7BD">>,
     <<"U+A7BE", "U+A7BF">>, <<"U+A7C0", "U+A7C1">>, <<"U+A7C2", "U+A7C3">>,
     <<"U+A7C4", "U+A794">>, <<"U+A7C5", "U+0282">>, <<"U+A7C6", "U+1D8E">>,
     <<"U+A7C7", "U+A7C8">>, <<"U+A7C9", "U+A7CA">>, <<"U+A7CB", "U+0264">>,
     <<"U+A7CC", "U+A7CD">>, <<"U+A7CE", "U+A7CF">>, <<"U+A7D0", "U+A7D1">>,
     <<"U+A7D2", "U+A7D3">>, <<"U+A7D4", "U+A7D5">>, <<"U+A7D6", "U+A7D7">>,
     <<"U+A7D8", "U+A7D9">>, <<"U+A7DA", "U+A7DB">>, <<"U+A7DC", "U+019B">>,
     <<"U+A7F5", "U+A7F6">>, <<"U+FF21", "U+FF41">>, <<"U+FF22", "U+FF42">>,
     <<"U+FF23", "U+FF43">>, <<"U+FF24", "U+FF44">>, <<"U+FF25", "U+FF45">>,
     <<"U+FF26", "U+FF46">>, <<"U+FF27", "U+FF47">>, <<"U+FF28", "U+FF48">>,
     <<"U+FF29", "U+FF49">>, <<"U+FF2A", "U+FF4A">>, <<"U+FF2B", "U+FF4B">>,
     <<"U+FF2C", "U+FF4C">>, <<"U+FF2D", "U+FF4D">>, <<"U+FF2E", "U+FF4E">>,
     <<"U+FF2F", "U+FF4F">>, <<"U+FF30", "U+FF50">>, <<"U+FF31", "U+FF51">>,
     <<"U+FF32", "U+FF52">>, <<"U+FF33", "U+FF53">>, <<"U+FF34", "U+FF54">>,
     <<"U+FF35", "U+FF55">>, <<"U+FF36", "U+FF56">>, <<"U+FF37", "U+FF57">>,
     <<"U+FF38", "U+FF58">>, <<"U+FF39", "U+FF59">>, <<"U+FF3A", "U+FF5A">>
    }

\* the same for the characters of two code units: the pair, then the pair of
\* its lower case
LowerCaseMappingPairs ==
    {
     <<"U+D801", "U+DC00", "U+D801", "U+DC28">>, <<"U+D801", "U+DC01", "U+D801", "U+DC29">>,
     <<"U+D801", "U+DC02", "U+D801", "U+DC2A">>, <<"U+D801", "U+DC03", "U+D801", "U+DC2B">>,
     <<"U+D801", "U+DC04", "U+D801", "U+DC2C">>, <<"U+D801", "U+DC05", "U+D801", "U+DC2D">>,
     <<"U+D801", "U+DC06", "U+D801", "U+DC2E">>, <<"U+D801", "U+DC07", "U+D801", "U+DC2F">>,
     <<"U+D801", "U+DC08", "U+D801", "U+DC30">>, <<"U+D801", "U+DC09", "U+D801", "U+DC31">>,
     <<"U+D801", "U+DC0A", "U+D801", "U+DC32">>, <<"U+D801", "U+DC0B", "U+D801", "U+DC33">>,
     <<"U+D801", "U+DC0C", "U+D801", "U+DC34">>, <<"U+D801", "U+DC0D", "U+D801", "U+DC35">>,
     <<"U+D801", "U+DC0E", "U+D801", "U+DC36">>, <<"U+D801", "U+DC0F", "U+D801", "U+DC37">>,
     <<"U+D801", "U+DC10", "U+D801", "U+DC38">>, <<"U+D801", "U+DC11", "U+D801", "U+DC39">>,
     <<"U+D801", "U+DC12", "U+D801", "U+DC3A">>, <<"U+D801", "U+DC13", "U+D801", "U+DC3B">>,
     <<"U+D801", "U+DC14", "U+D801", "U+DC3C">>, <<"U+D801", "U+DC15", "U+D801", "U+DC3D">>,
     <<"U+D801", "U+DC16", "U+D801", "U+DC3E">>, <<"U+D801", "U+DC17", "U+D801", "U+DC3F">>,
     <<"U+D801", "U+DC18", "U+D801", "U+DC40">>, <<"U+D801", "U+DC19", "U+D801", "U+DC41">>,
     <<"U+D801", "U+DC1A", "U+D801", "U+DC42">>, <<"U+D801", "U+DC1B", "U+D801", "U+DC43">>,
     <<"U+D801", "U+DC1C", "U+D801", "U+DC44">>, <<"U+D801", "U+DC1D", "U+D801", "U+DC45">>,
     <<"U+D801", "U+DC1E", "U+D801", "U+DC46">>, <<"U+D801", "U+DC1F", "U+D801", "U+DC47">>,
     <<"U+D801", "U+DC20", "U+D801", "U+DC48">>, <<"U+D801", "U+DC21", "U+D801", "U+DC49">>,
     <<"U+D801", "U+DC22", "U+D801", "U+DC4A">>, <<"U+D801", "U+DC23", "U+D801", "U+DC4B">>,
     <<"U+D801", "U+DC24", "U+D801", "U+DC4C">>, <<"U+D801", "U+DC25", "U+D801", "U+DC4D">>,
     <<"U+D801", "U+DC26", "U+D801", "U+DC4E">>, <<"U+D801", "U+DC27", "U+D801", "U+DC4F">>,
     <<"U+D801", "U+DCB0", "U+D801", "U+DCD8">>, <<"U+D801", "U+DCB1", "U+D801", "U+DCD9">>,
     <<"U+D801", "U+DCB2", "U+D801", "U+DCDA">>, <<"U+D801", "U+DCB3", "U+D801", "U+DCDB">>,
     <<"U+D801", "U+DCB4", "U+D801", "U+DCDC">>, <<"U+D801", "U+DCB5", "U+D801", "U+DCDD">>,
     <<"U+D801", "U+DCB6", "U+D801", "U+DCDE">>, <<"U+D801", "U+DCB7", "U+D801", "U+DCDF">>,
     <<"U+D801", "U+DCB8", "U+D801", "U+DCE0">>, <<"U+D801", "U+DCB9", "U+D801", "U+DCE1">>,
     <<"U+D801", "U+DCBA", "U+D801", "U+DCE2">>, <<"U+D801", "U+DCBB", "U+D801", "U+DCE3">>,
     <<"U+D801", "U+DCBC", "U+D801", "U+DCE4">>, <<"U+D801", "U+DCBD", "U+D801", "U+DCE5">>,
     <<"U+D801", "U+DCBE", "U+D801", "U+DCE6">>, <<"U+D801", "U+DCBF", "U+D801", "U+DCE7">>,
     <<"U+D801", "U+DCC0", "U+D801", "U+DCE8">>, <<"U+D801", "U+DCC1", "U+D801", "U+DCE9">>,
     <<"U+D801", "U+DCC2", "U+D801", "U+DCEA">>, <<"U+D801", "U+DCC3", "U+D801", "U+DCEB">>,
     <<"U+D801", "U+DCC4", "U+D801", "U+DCEC">>, <<"U+D801", "U+DCC5", "U+D801", "U+DCED">>,
     <<"U+D801", "U+DCC6", "U+D801", "U+DCEE">>, <<"U+D801", "U+DCC7", "U+D801", "U+DCEF">>,
     <<"U+D801", "U+DCC8", "U+D801", "U+DCF0">>, <<"U+D801", "U+DCC9", "U+D801", "U+DCF1">>,
     <<"U+D801", "U+DCCA", "U+D801", "U+DCF2">>, <<"U+D801", "U+DCCB", "U+D801", "U+DCF3">>,
     <<"U+D801", "U+DCCC", "U+D801", "U+DCF4">>, <<"U+D801", "U+DCCD", "U+D801", "U+DCF5">>,
     <<"U+D801", "U+DCCE", "U+D801", "U+DCF6">>, <<"U+D801", "U+DCCF", "U+D801", "U+DCF7">>,
     <<"U+D801", "U+DCD0", "U+D801", "U+DCF8">>, <<"U+D801", "U+DCD1", "U+D801", "U+DCF9">>,
     <<"U+D801", "U+DCD2", "U+D801", "U+DCFA">>, <<"U+D801", "U+DCD3", "U+D801", "U+DCFB">>,
     <<"U+D801", "U+DD70", "U+D801", "U+DD97">>, <<"U+D801", "U+DD71", "U+D801", "U+DD98">>,
     <<"U+D801", "U+DD72", "U+D801", "U+DD99">>, <<"U+D801", "U+DD73", "U+D801", "U+DD9A">>,
     <<"U+D801", "U+DD74", "U+D801", "U+DD9B">>, <<"U+D801", "U+DD75", "U+D801", "U+DD9C">>,
     <<"U+D801", "U+DD76", "U+D801", "U+DD9D">>, <<"U+D801", "U+DD77", "U+D801", "U+DD9E">>,
     <<"U+D801", "U+DD78", "U+D801", "U+DD9F">>, <<"U+D801", "U+DD79", "U+D801", "U+DDA0">>,
     <<"U+D801", "U+DD7A", "U+D801", "U+DDA1">>, <<"U+D801", "U+DD7C", "U+D801", "U+DDA3">>,
     <<"U+D801", "U+DD7D", "U+D801", "U+DDA4">>, <<"U+D801", "U+DD7E", "U+D801", "U+DDA5">>,
     <<"U+D801", "U+DD7F", "U+D801", "U+DDA6">>, <<"U+D801", "U+DD80", "U+D801", "U+DDA7">>,
     <<"U+D801", "U+DD81", "U+D801", "U+DDA8">>, <<"U+D801", "U+DD82", "U+D801", "U+DDA9">>,
     <<"U+D801", "U+DD83", "U+D801", "U+DDAA">>, <<"U+D801", "U+DD84", "U+D801", "U+DDAB">>,
     <<"U+D801", "U+DD85", "U+D801", "U+DDAC">>, <<"U+D801", "U+DD86", "U+D801", "U+DDAD">>,
     <<"U+D801", "U+DD87", "U+D801", "U+DDAE">>, <<"U+D801", "U+DD88", "U+D801", "U+DDAF">>,
     <<"U+D801", "U+DD89", "U+D801", "U+DDB0">>, <<"U+D801", "U+DD8A", "U+D801", "U+DDB1">>,
     <<"U+D801", "U+DD8C", "U+D801", "U+DDB3">>, <<"U+D801", "U+DD8D", "U+D801", "U+DDB4">>,
     <<"U+D801", "U+DD8E", "U+D801", "U+DDB5">>, <<"U+D801", "U+DD8F", "U+D801", "U+DDB6">>,
     <<"U+D801", "U+DD90", "U+D801", "U+DDB7">>, <<"U+D801", "U+DD91", "U+D801", "U+DDB8">>,
     <<"U+D801", "U+DD92", "U+D801", "U+DDB9">>, <<"U+D801", "U+DD94", "U+D801", "U+DDBB">>,
     <<"U+D801", "U+DD95", "U+D801", "U+DDBC">>, <<"U+D803", "U+DC80", "U+D803", "U+DCC0">>,
     <<"U+D803", "U+DC81", "U+D803", "U+DCC1">>, <<"U+D803", "U+DC82", "U+D803", "U+DCC2">>,
     <<"U+D803", "U+DC83", "U+D803", "U+DCC3">>, <<"U+D803", "U+DC84", "U+D803", "U+DCC4">>,
     <<"U+D803", "U+DC85", "U+D803", "U+DCC5">>, <<"U+D803", "U+DC86", "U+D803", "U+DCC6">>,
     <<"U+D803", "U+DC87", "U+D803", "U+DCC7">>, <<"U+D803", "U+DC88", "U+D803", "U+DCC8">>,
     <<"U+D803", "U+DC89", "U+D803", "U+DCC9">>, <<"U+D803", "U+DC8A", "U+D803", "U+DCCA">>,
     <<"U+D803", "U+DC8B", "U+D803", "U+DCCB">>, <<"U+D803", "U+DC8C", "U+D803", "U+DCCC">>,
     <<"U+D803", "U+DC8D", "U+D803", "U+DCCD">>, <<"U+D803", "U+DC8E", "U+D803", "U+DCCE">>,
     <<"U+D803", "U+DC8F", "U+D803", "U+DCCF">>, <<"U+D803", "U+DC90", "U+D803", "U+DCD0">>,
     <<"U+D803", "U+DC91", "U+D803", "U+DCD1">>, <<"U+D803", "U+DC92", "U+D803", "U+DCD2">>,
     <<"U+D803", "U+DC93", "U+D803", "U+DCD3">>, <<"U+D803", "U+DC94", "U+D803", "U+DCD4">>,
     <<"U+D803", "U+DC95", "U+D803", "U+DCD5">>, <<"U+D803", "U+DC96", "U+D803", "U+DCD6">>,
     <<"U+D803", "U+DC97", "U+D803", "U+DCD7">>, <<"U+D803", "U+DC98", "U+D803", "U+DCD8">>,
     <<"U+D803", "U+DC99", "U+D803", "U+DCD9">>, <<"U+D803", "U+DC9A", "U+D803", "U+DCDA">>,
     <<"U+D803", "U+DC9B", "U+D803", "U+DCDB">>, <<"U+D803", "U+DC9C", "U+D803", "U+DCDC">>,
     <<"U+D803", "U+DC9D", "U+D803", "U+DCDD">>, <<"U+D803", "U+DC9E", "U+D803", "U+DCDE">>,
     <<"U+D803", "U+DC9F", "U+D803", "U+DCDF">>, <<"U+D803", "U+DCA0", "U+D803", "U+DCE0">>,
     <<"U+D803", "U+DCA1", "U+D803", "U+DCE1">>, <<"U+D803", "U+DCA2", "U+D803", "U+DCE2">>,
     <<"U+D803", "U+DCA3", "U+D803", "U+DCE3">>, <<"U+D803", "U+DCA4", "U+D803", "U+DCE4">>,
     <<"U+D803", "U+DCA5", "U+D803", "U+DCE5">>, <<"U+D803", "U+DCA6", "U+D803", "U+DCE6">>,
     <<"U+D803", "U+DCA7", "U+D803", "U+DCE7">>, <<"U+D803", "U+DCA8", "U+D803", "U+DCE8">>,
     <<"U+D803", "U+DCA9", "U+D803", "U+DCE9">>, <<"U+D803", "U+DCAA", "U+D803", "U+DCEA">>,
     <<"U+D803", "U+DCAB", "U+D803", "U+DCEB">>, <<"U+D803", "U+DCAC", "U+D803", "U+DCEC">>,
     <<"U+D803", "U+DCAD", "U+D803", "U+DCED">>, <<"U+D803", "U+DCAE", "U+D803", "U+DCEE">>,
     <<"U+D803", "U+DCAF", "U+D803", "U+DCEF">>, <<"U+D803", "U+DCB0", "U+D803", "U+DCF0">>,
     <<"U+D803", "U+DCB1", "U+D803", "U+DCF1">>, <<"U+D803", "U+DCB2", "U+D803", "U+DCF2">>,
     <<"U+D803", "U+DD50", "U+D803", "U+DD70">>, <<"U+D803", "U+DD51", "U+D803", "U+DD71">>,
     <<"U+D803", "U+DD52", "U+D803", "U+DD72">>, <<"U+D803", "U+DD53", "U+D803", "U+DD73">>,
     <<"U+D803", "U+DD54", "U+D803", "U+DD74">>, <<"U+D803", "U+DD55", "U+D803", "U+DD75">>,
     <<"U+D803", "U+DD56", "U+D803", "U+DD76">>, <<"U+D803", "U+DD57", "U+D803", "U+DD77">>,
     <<"U+D803", "U+DD58", "U+D803", "U+DD78">>, <<"U+D803", "U+DD59", "U+D803", "U+DD79">>,
     <<"U+D803", "U+DD5A", "U+D803", "U+DD7A">>, <<"U+D803", "U+DD5B", "U+D803", "U+DD7B">>,
     <<"U+D803", "U+DD5C", "U+D803", "U+DD7C">>, <<"U+D803", "U+DD5D", "U+D803", "U+DD7D">>,
     <<"U+D803", "U+DD5E", "U+D803", "U+DD7E">>, <<"U+D803", "U+DD5F", "U+D803", "U+DD7F">>,
     <<"U+D803", "U+DD60", "U+D803", "U+DD80">>, <<"U+D803", "U+DD61", "U+D803", "U+DD81">>,
     <<"U+D803", "U+DD62", "U+D803", "U+DD82">>, <<"U+D803", "U+DD63", "U+D803", "U+DD83">>,
     <<"U+D803", "U+DD64", "U+D803", "U+DD84">>, <<"U+D803", "U+DD65", "U+D803", "U+DD85">>,
     <<"U+D806", "U+DCA0", "U+D806", "U+DCC0">>, <<"U+D806", "U+DCA1", "U+D806", "U+DCC1">>,
     <<"U+D806", "U+DCA2", "U+D806", "U+DCC2">>, <<"U+D806", "U+DCA3", "U+D806", "U+DCC3">>,
     <<"U+D806", "U+DCA4", "U+D806", "U+DCC4">>, <<"U+D806", "U+DCA5", "U+D806", "U+DCC5">>,
     <<"U+D806", "U+DCA6", "U+D806", "U+DCC6">>, <<"U+D806", "U+DCA7", "U+D806", "U+DCC7">>,
     <<"U+D806", "U+DCA8", "U+D806", "U+DCC8">>, <<"U+D806", "U+DCA9", "U+D806", "U+DCC9">>,
     <<"U+D806", "U+DCAA", "U+D806", "U+DCCA">>, <<"U+D806", "U+DCAB", "U+D806", "U+DCCB">>,
     <<"U+D806", "U+DCAC", "U+D806", "U+DCCC">>, <<"U+D806", "U+DCAD", "U+D806", "U+DCCD">>,
     <<"U+D806", "U+DCAE", "U+D806", "U+DCCE">>, <<"U+D806", "U+DCAF", "U+D806", "U+DCCF">>,
     <<"U+D806", "U+DCB0", "U+D806", "U+DCD0">>, <<"U+D806", "U+DCB1", "U+D806", "U+DCD1">>,
     <<"U+D806", "U+DCB2", "U+D806", "U+DCD2">>, <<"U+D806", "U+DCB3", "U+D806", "U+DCD3">>,
     <<"U+D806", "U+DCB4", "U+D806", "U+DCD4">>, <<"U+D806", "U+DCB5", "U+D806", "U+DCD5">>,
     <<"U+D806", "U+DCB6", "U+D806", "U+DCD6">>, <<"U+D806", "U+DCB7", "U+D806", "U+DCD7">>,
     <<"U+D806", "U+DCB8", "U+D806", "U+DCD8">>, <<"U+D806", "U+DCB9", "U+D806", "U+DCD9">>,
     <<"U+D806", "U+DCBA", "U+D806", "U+DCDA">>, <<"U+D806", "U+DCBB", "U+D806", "U+DCDB">>,
     <<"U+D806", "U+DCBC", "U+D806", "U+DCDC">>, <<"U+D806", "U+DCBD", "U+D806", "U+DCDD">>,
     <<"U+D806", "U+DCBE", "U+D806", "U+DCDE">>, <<"U+D806", "U+DCBF", "U+D806", "U+DCDF">>,
     <<"U+D81B", "U+DE40", "U+D81B", "U+DE60">>, <<"U+D81B", "U+DE41", "U+D81B", "U+DE61">>,
     <<"U+D81B", "U+DE42", "U+D81B", "U+DE62">>, <<"U+D81B", "U+DE43", "U+D81B", "U+DE63">>,
     <<"U+D81B", "U+DE44", "U+D81B", "U+DE64">>, <<"U+D81B", "U+DE45", "U+D81B", "U+DE65">>,
     <<"U+D81B", "U+DE46", "U+D81B", "U+DE66">>, <<"U+D81B", "U+DE47", "U+D81B", "U+DE67">>,
     <<"U+D81B", "U+DE48", "U+D81B", "U+DE68">>, <<"U+D81B", "U+DE49", "U+D81B", "U+DE69">>,
     <<"U+D81B", "U+DE4A", "U+D81B", "U+DE6A">>, <<"U+D81B", "U+DE4B", "U+D81B", "U+DE6B">>,
     <<"U+D81B", "U+DE4C", "U+D81B", "U+DE6C">>, <<"U+D81B", "U+DE4D", "U+D81B", "U+DE6D">>,
     <<"U+D81B", "U+DE4E", "U+D81B", "U+DE6E">>, <<"U+D81B", "U+DE4F", "U+D81B", "U+DE6F">>,
     <<"U+D81B", "U+DE50", "U+D81B", "U+DE70">>, <<"U+D81B", "U+DE51", "U+D81B", "U+DE71">>,
     <<"U+D81B", "U+DE52", "U+D81B", "U+DE72">>, <<"U+D81B", "U+DE53", "U+D81B", "U+DE73">>,
     <<"U+D81B", "U+DE54", "U+D81B", "U+DE74">>, <<"U+D81B", "U+DE55", "U+D81B", "U+DE75">>,
     <<"U+D81B", "U+DE56", "U+D81B", "U+DE76">>, <<"U+D81B", "U+DE57", "U+D81B", "U+DE77">>,
     <<"U+D81B", "U+DE58", "U+D81B", "U+DE78">>, <<"U+D81B", "U+DE59", "U+D81B", "U+DE79">>,
     <<"U+D81B", "U+DE5A", "U+D81B", "U+DE7A">>, <<"U+D81B", "U+DE5B", "U+D81B", "U+DE7B">>,
     <<"U+D81B", "U+DE5C", "U+D81B", "U+DE7C">>, <<"U+D81B", "U+DE5D", "U+D81B", "U+DE7D">>,
     <<"U+D81B", "U+DE5E", "U+D81B", "U+DE7E">>, <<"U+D81B", "U+DE5F", "U+D81B", "U+DE7F">>,
     <<"U+D81B", "U+DEA0", "U+D81B", "U+DEBB">>, <<"U+D81B", "U+DEA1", "U+D81B", "U+DEBC">>,
     <<"U+D81B", "U+DEA2", "U+D81B", "U+DEBD">>, <<"U+D81B", "U+DEA3", "U+D81B", "U+DEBE">>,
     <<"U+D81B", "U+DEA4", "U+D81B", "U+DEBF">>, <<"U+D81B", "U+DEA5", "U+D81B", "U+DEC0">>,
     <<"U+D81B", "U+DEA6", "U+D81B", "U+DEC1">>, <<"U+D81B", "U+DEA7", "U+D81B", "U+DEC2">>,
     <<"U+D81B", "U+DEA8", "U+D81B", "U+DEC3">>, <<"U+D81B", "U+DEA9", "U+D81B", "U+DEC4">>,
     <<"U+D81B", "U+DEAA", "U+D81B", "U+DEC5">>, <<"U+D81B", "U+DEAB", "U+D81B", "U+DEC6">>,
     <<"U+D81B", "U+DEAC", "U+D81B", "U+DEC7">>, <<"U+D81B", "U+DEAD", "U+D81B", "U+DEC8">>,
     <<"U+D81B", "U+DEAE", "U+D81B", "U+DEC9">>, <<"U+D81B", "U+DEAF", "U+D81B", "U+DECA">>,
     <<"U+D81B", "U+DEB0", "U+D81B", "U+DECB">>, <<"U+D81B", "U+DEB1", "U+D81B", "U+DECC">>,
     <<"U+D81B", "U+DEB2", "U+D81B", "U+DECD">>, <<"U+D81B", "U+DEB3", "U+D81B", "U+DECE">>,
     <<"U+D81B", "U+DEB4", "U+D81B", "U+DECF">>, <<"U+D81B", "U+DEB5", "U+D81B", "U+DED0">>,
     <<"U+D81B", "U+DEB6", "U+D81B", "U+DED1">>, <<"U+D81B", "U+DEB7", "U+D81B", "U+DED2">>,
     <<"U+D81B", "U+DEB8", "U+D81B", "U+DED3">>, <<"U+D83A", "U+DD00", "U+D83A", "U+DD22">>,
     <<"U+D83A", "U+DD01", "U+D83A", "U+DD23">>, <<"U+D83A", "U+DD02", "U+D83A", "U+DD24">>,
     <<"U+D83A", "U+DD03", "U+D83A", "U+DD25">>, <<"U+D83A", "U+DD04", "U+D83A", "U+DD26">>,
     <<"U+D83A", "U+DD05", "U+D83A", "U+DD27">>, <<"U+D83A", "U+DD06", "U+D83A", "U+DD28">>,
     <<"U+D83A", "U+DD07", "U+D83A", "U+DD29">>, <<"U+D83A", "U+DD08", "U+D83A", "U+DD2A">>,
     <<"U+D83A", "U+DD09", "U+D83A", "U+DD2B">>, <<"U+D83A", "U+DD0A", "U+D83A", "U+DD2C">>,
     <<"U+D83A", "U+DD0B", "U+D83A", "U+DD2D">>, <<"U+D83A", "U+DD0C", "U+D83A", "U+DD2E">>,
     <<"U+D83A", "U+DD0D", "U+D83A", "U+DD2F">>, <<"U+D83A", "U+DD0E", "U+D83A", "U+DD30">>,
     <<"U+D83A", "U+DD0F", "U+D83A", "U+DD31">>, <<"U+D83A", "U+DD10", "U+D83A", "U+DD32">>,
     <<"U+D83A", "U+DD11", "U+D83A", "U+DD33">>, <<"U+D83A", "U+DD12", "U+D83A", "U+DD34">>,
     <<"U+D83A", "U+DD13", "U+D83A", "U+DD35">>, <<"U+D83A", "U+DD14", "U+D83A", "U+DD36">>,
     <<"U+D83A", "U+DD15", "U+D83A", "U+DD37">>, <<"U+D83A", "U+DD16", "U+D83A", "U+DD38">>,
     <<"U+D83A", "U+DD17", "U+D83A", "U+DD39">>, <<"U+D83A", "U+DD18", "U+D83A", "U+DD3A">>,
     <<"U+D83A", "U+DD19", "U+D83A", "U+DD3B">>, <<"U+D83A", "U+DD1A", "U+D83A", "U+DD3C">>,
     <<"U+D83A", "U+DD1B", "U+D83A", "U+DD3D">>, <<"U+D83A", "U+DD1C", "U+D83A", "U+DD3E">>,
     <<"U+D83A", "U+DD1D", "U+D83A", "U+DD3F">>, <<"U+D83A", "U+DD1E", "U+D83A", "U+DD40">>,
     <<"U+D83A", "U+DD1F", "U+D83A", "U+DD41">>, <<"U+D83A", "U+DD20", "U+D83A", "U+DD42">>,
     <<"U+D83A", "U+DD21", "U+D83A", "U+DD43">>
    }

UpperLetters ==
    [c \in {m[1] : m \in LowerCaseMapping} |->
        LET m == CHOOSE m \in LowerCaseMapping : m[1] = c IN SubSeq(m, 2, Len(m))]

UpperPairs ==
    [p \in {SubSeq(m, 1, 2) : m \in LowerCaseMappingPairs} |->
        LET m == CHOOSE m \in LowerCaseMappingPairs : SubSeq(m, 1, 2) = p IN SubSeq(m, 3, 4)]

\* the cased letters (upper case, lower case and title case) that are not
\* case-ignorable: those of one code unit, then those of two
Cased ==
    {
     "A", "B", "C", "D", "E", "F", "G", "H", "I", "J", "K", "L", "M", "N", "O", "P", "Q", "R",
     "S", "T", "U", "V", "W", "X", "Y", "Z", "a", "b", "c", "d", "e", "f", "g", "h", "i", "j",
     "k", "l", "m", "n", "o", "p", "q", "r", "s", "t", "u", "v", "w", "x", "y", "z", "U+00AA",
     "U+00B5", "U+00BA", "U+00C0", "U+00C1", "U+00C2", "U+00C3", "U+00C4", "U+00C5", "U+00C6",
     "U+00C7", "U+00C8", "U+00C9", "U+00CA", "U+00CB", "U+00CC", "U+00CD", "U+00CE", "U+00CF",
     "U+00D0", "U+00D1", "U+00D2", "U+00D3", "U+00D4", "U+00D5", "U+00D6", "U+00D8", "U+00D9",
     "U+00DA", "U+00DB", "U+00DC", "U+00DD", "U+00DE", "U+00DF", "U+00E0", "U+00E1", "U+00E2",
     "U+00E3", "U+00E4", "U+00E5", "U+00E6", "U+00E7", "U+00E8", "U+00E9", "U+00EA", "U+00EB",
     "U+00EC", "U+00ED", "U+00EE", "U+00EF", "U+00F0", "U+00F1", "U+00F2", "U+00F3", "U+00F4",
     "U+00F5", "U+00F6", "U+00F8", "U+00F9", "U+00FA", "U+00FB", "U+00FC", "U+00FD", "U+00FE",
     "U+00FF", "U+0100", "U+0101", "U+0102", "U+0103", "U+0104", "U+0105", "U+0106", "U+0107",
     "U+0108", "U+0109", "U+010A", "U+010B", "U+010C", "U+010D", "U+010E", "U+010F", "U+0110",
     "U+0111", "U+0112", "U+0113", "U+0114", "U+0115", "U+0116", "U+0117", "U+0118", "U+0119",
     "U+011A", "U+011B", "U+011C", "U+011D", "U+011E", "U+011F", "U+0120", "U+0121", "U+0122",
     "U+0123", "U+0124", "U+0125", "U+0126", "U+0127", "U+0128", "U+0129", "U+012A", "U+012B",
     "U+012C", "U+012D", "U+012E", "U+012F", "U+0130", "U+0131", "U+0132", "U+0133", "U+0134",
     "U+0135", "U+0136", "U+0137", "U+0138", "U+0139", "U+013A", "U+013B", "U+013C", "U+013D",
     "U+013E", "U+013F", "U+0140", "U+0141", "U+0142", "U+0143", "U+0144", "U+0145", "U+0146",
     "U+0147", "U+0148", "U+0149", "U+014A", "U+014B", "U+014C", "U+014D", "U+014E", "U+014F",
     "U+0150", "U+0151", "U+0152", "U+0153", "U+0154", "U+0155", "U+0156", "U+0157", "U+0158",
     "U+0159", "U+015A", "U+015B", "U+015C", "U+015D", "U+015E", "U+015F", "U+0160", "U+0161",
     "U+0162", "U+0163", "U+0164", "U+0165", "U+0166", "U+0167", "U+0168", "U+0169", "U+016A",
     "U+016B", "U+016C", "U+016D", "U+016E", "U+016F", "U+0170", "U+0171", "U+0172", "U+0173",
     "U+0174", "U+0175", "U+0176", "U+0177", "U+0178", "U+0179", "U+017A", "U+017B", "U+017C",
     "U+017D", "U+017E", "U+017F", "U+0180", "U+0181", "U+0182", "U+0183", "U+0184", "U+0185",
     "U+0186", "U+0187", "U+0188", "U+0189", "U+018A", "U+018B", "U+018C", "U+018D", "U+018E",
     "U+018F", "U+0190", "U+0191", "U+0192", "U+0193", "U+0194", "U+0195", "U+0196", "U+0197",
     "U+0198", "U+0199", "U+019A", "U+019B", "U+019C", "U+019D", "U+019E", "U+019F", "U+01A0",
     "U+01A1", "U+01A2", "U+01A3", "U+01A4", "U+01A5", "U+01A6", "U+01A7", "U+01A8", "U+01A9",
     "U+01AA", "U+01AB", "U+01AC", "U+01AD", "U+01AE", "U+01AF", "U+01B0", "U+01B1", "U+01B2",
     "U+01B3", "U+01B4", "U+01B5", "U+01B6", "U+01B7", "U+01B8", "U+01B9", "U+01BA", "U+01BC",
     "U+01BD", "U+01BE", "U+01BF", "U+01C4", "U+01C5", "U+01C6", "U+01C7", "U+01C8", "U+01C9",
     "U+01CA", "U+01CB", "U+01CC", "U+01CD", "U+01CE", "U+01CF", "U+01D0", "U+01D1", "U+01D2",
     "U+01D3", "U+01D4", "U+01D5", "U+01D6", "U+01D7", "U+01D8", "U+01D9", "U+01DA", "U+01DB",
     "U+01DC", "U+01DD", "U+01DE", "U+01DF", "U+01E0", "U+01E1", "U+01E2", "U+01E3", "U+01E4",
     "U+01E5", "U+01E6", "U+01E7", "U+01E8", "U+01E9", "U+01EA", "U+01EB", "U+01EC", "U+01ED",
     "U+01EE", "U+01EF", "U+01F0", "U+01F1", "U+01F2", "U+01F3", "U+01F4", "U+01F5", "U+01F6",
     "U+01F7", "U+01F8", "U+01F9", "U+01FA", "U+01FB", "U+01FC", "U+01FD", "U+01FE", "U+01FF",
     "U+0200", "U+0201", "U+0202", "U+0203", "U+0204", "U+0205", "U+0206", "U+0207", "U+0208",
     "U+0209", "U+020A", "U+020B", "U+020C", "U+020D", "U+020E", "U+020F", "U+0210", "U+0211",
     "U+0212", "U+0213", "U+0214", "U+0215", "U+0216", "U+0217", "U+0218", "U+0219", "U+021A",
     "U+021B", "U+021C", "U+021D", "U+021E", "U+021F", "U+0220", "U+0221", "U+0222", "U+0223",
     "U+0224", "U+0225", "U+0226", "U+0227", "U+0228", "U+0229", "U+022A", "U+022B", "U+022C",
     "U+022D", "U+022E", "U+022F", "U+0230", "U+0231", "U+0232", "U+0233", "U+0234", "U+0235",
     "U+0236", "U+0237", "U+0238", "U+0239", "U+023A", "U+023B", "U+023C", "U+023D", "U+023E",
     "U+023F", "U+0240", "U+0241", "U+0242", "U+0243", "U+0244", "U+0245", "U+0246", "U+0247",
     "U+0248", "U+0249", "U+024A", "U+024B", "U+024C", "U+024D", "U+024E", "U+024F", "U+0250",
     "U+0251", "U+0252", "U+0253", "U+0254", "U+0255", "U+0256", "U+0257", "U+0258", "U+0259",
     "U+025A", "U+025B", "U+025C", "U+025D", "U+025E", "U+025F", "U+0260", "U+0261", "U+0262",
     "U+0263", "U+0264", "U+0265", "U+0266", "U+0267", "U+0268", "U+0269", "U+026A", "U+026B",
     "U+026C", "U+026D", "U+026E", "U+026F", "U+0270", "U+0271", "U+0272", "U+0273", "U+0274",
     "U+0275", "U+0276", "U+0277", "U+0278", "U+0279", "U+027A", "U+027B", "U+027C", "U+027D",
     "U+027E", "U+027F", "U+0280", "U+0281", "U+0282", "U+0283", "U+0284", "U+0285", "U+0286",
     "U+0287", "U+0288", "U+0289", "U+028A", "U+028B", "U+028C", "U+028D", "U+028E", "U+028F",
     "U+0290", "U+0291", "U+0292", "U+0293", "U+0296", "U+0297", "U+0298", "U+0299", "U+029A",
     "U+029B", "U+029C", "U+029D", "U+029E", "U+029F", "U+02A0", "U+02A1", "U+02A2", "U+02A3",
     "U+02A4", "U+02A5", "U+02A6", "U+02A7", "U+02A8", "U+02A9", "U+02AA", "U+02AB", "U+02AC",
     "U+02AD", "U+02AE", "U+02AF", "U+0370", "U+0371", "U+0372", "U+0373", "U+0376", "U+0377",
     "U+037B", "U+037C", "U+037D", "U+037F", "U+0386", "U+0388", "U+0389", "U+038A", "U+038C",
     "U+038E", "U+038F", "U+0390", "U+0391", "U+0392", "U+0393", "U+0394", "U+0395", "U+0396",
     "U+0397", "U+0398", "U+0399", "U+039A", "U+039B", "U+039C", "U+039D", "U+039E", "U+039F",
     "U+03A0", "U+03A1", "U+03A3", "U+03A4", "U+03A5", "U+03A6", "U+03A7", "U+03A8", "U+03A9",
     "U+03AA", "U+03AB", "U+03AC", "U+03AD", "U+03AE", "U+03AF", "U+03B0", "U+03B1", "U+03B2",
     "U+03B3", "U+03B4", "U+03B5", "U+03B6", "U+03B7", "U+03B8", "U+03B9", "U+03BA", "U+03BB",
     "U+03BC", "U+03BD", "U+03BE", "U+03BF", "U+03C0", "U+03C1", "U+03C2", "U+03C3", "U+03C4",
     "U+03C5", "U+03C6", "U+03C7", "U+03C8", "U+03C9", "U+03CA", "U+03CB", "U+03CC", "U+03CD",
     "U+03CE", "U+03CF", "U+03D0", "U+03D1", "U+03D2", "U+03D3", "U+03D4", "U+03D5", "U+03D6",
     "U+03D7", "U+03D8", "U+03D9", "U+03DA", "U+03DB", "U+03DC", "U+03DD", "U+03DE", "U+03DF",
     "U+03E0", "U+03E1", "U+03E2", "U+03E3", "U+03E4", "U+03E5", "U+03E6", "U+03E7", "U+03E8",
     "U+03E9", "U+03EA", "U+03EB", "U+03EC", "U+03ED", "U+03EE", "U+03EF", "U+03F0", "U+03F1",
     "U+03F2", "U+03F3", "U+03F4", "U+03F5", "U+03F7", "U+03F8", "U+03F9", "U+03FA", "U+03FB",
     "U+03FC", "U+03FD", "U+03FE", "U+03FF", "U+0400", "U+0401", "U+0402", "U+0403", "U+0404",
     "U+0405", "U+0406", "U+0407", "U+0408", "U+0409", "U+040A", "U+040B", "U+040C", "U+040D",
     "U+040E", "U+040F", "U+0410", "U+0411", "U+0412", "U+0413", "U+0414", "U+0415", "U+0416",
     "U+0417", "U+0418", "U+0419", "U+041A", "U+041B", "U+041C", "U+041D", "U+041E", "U+041F",
     "U+0420", "U+0421", "U+0422", "U+0423", "U+0424", "U+0425", "U+0426", "U+0427", "U+0428",
     "U+0429", "U+042A", "U+042B", "U+042C", "U+042D", "U+042E", "U+042F", "U+0430", "U+0431",
     "U+0432", "U+0433", "U+0434", "U+0435", "U+0436", "U+0437", "U+0438", "U+0439", "U+043A",
     "U+043B", "U+043C", "U+043D", "U+043E", "U+043F", "U+0440", "U+0441", "U+0442", "U+0443",
     "U+0444", "U+0445", "U+0446", "U+0447", "U+0448", "U+0449", "U+044A", "U+044B", "U+044C",
     "U+044D", "U+044E", "U+044F", "U+0450", "U+0451", "U+0452", "U+0453", "U+0454", "U+0455",
     "U+0456", "U+0457", "U+0458", "U+0459", "U+045A", "U+045B", "U+045C", "U+045D", "U+045E",
     "U+045F", "U+0460", "U+0461", "U+0462", "U+0463", "U+0464", "U+0465", "U+0466", "U+0467",
     "U+0468", "U+0469", "U+046A", "U+046B", "U+046C", "U+046D", "U+046E", "U+046F", "U+0470",
     "U+0471", "U+0472", "U+0473", "U+0474", "U+0475", "U+0476", "U+0477", "U+0478", "U+0479",
     "U+047A", "U+047B", "U+047C", "U+047D", "U+047E", "U+047F", "U+0480", "U+0481", "U+048A",
     "U+048B", "U+048C", "U+048D", "U+048E", "U+048F", "U+0490", "U+0491", "U+0492", "U+0493",
     "U+0494", "U+0495", "U+0496", "U+0497", "U+0498", "U+0499", "U+049A", "U+049B", "U+049C",
     "U+049D", "U+049E", "U+049F", "U+04A0", "U+04A1", "U+04A2", "U+04A3", "U+04A4", "U+04A5",
     "U+04A6", "U+04A7", "U+04A8", "U+04A9", "U+04AA", "U+04AB", "U+04AC", "U+04AD", "U+04AE",
     "U+04AF", "U+04B0", "U+04B1", "U+04B2", "U+04B3", "U+04B4", "U+04B5", "U+04B6", "U+04B7",
     "U+04B8", "U+04B9", "U+04BA", "U+04BB", "U+04BC", "U+04BD", "U+04BE", "U+04BF", "U+04C0",
     "U+04C1", "U+04C2", "U+04C3", "U+04C4", "U+04C5", "U+04C6", "U+04C7", "U+04C8", "U+04C9",
     "U+04CA", "U+04CB", "U+04CC", "U+04CD", "U+04CE", "U+04CF", "U+04D0", "U+04D1", "U+04D2",
     "U+04D3", "U+04D4", "U+04D5", "U+04D6", "U+04D7", "U+04D8", "U+04D9", "U+04DA", "U+04DB",
     "U+04DC", "U+04DD", "U+04DE", "U+04DF", "U+04E0", "U+04E1", "U+04E2", "U+04E3", "U+04E4",
     "U+04E5", "U+04E6", "U+04E7", "U+04E8", "U+04E9", "U+04EA", "U+04EB", "U+04EC", "U+04ED",
     "U+04EE", "U+04EF", "U+04F0", "U+04F1", "U+04F2", "U+04F3", "U+04F4", "U+04F5", "U+04F6",
     "U+04F7", "U+04F8", "U+04F9", "U+04FA", "U+04FB", "U+04FC", "U+04FD", "U+04FE", "U+04FF",
     "U+0500", "U+0501", "U+0502", "U+0503", "U+0504", "U+0505", "U+0506", "U+0507", "U+0508",
     "U+0509", "U+050A", "U+050B", "U+050C", "U+050D", "U+050E", "U+050F", "U+0510", "U+0511",
     "U+0512", "U+0513", "U+0514", "U+0515", "U+0516", "U+0517", "U+0518", "U+0519", "U+051A",
     "U+051B", "U+051C", "U+051D", "U+051E", "U+051F", "U+0520", "U+0521", "U+0522", "U+0523",
     "U+0524", "U+0525", "U+0526", "U+0527", "U+0528", "U+0529", "U+052A", "U+052B", "U+052C",
     "U+052D", "U+052E", "U+052F", "U+0531", "U+0532", "U+0533", "U+0534", "U+0535", "U+0536",
     "U+0537", "U+0538", "U+0539", "U+053A", "U+053B", "U+053C", "U+053D", "U+053E", "U+053F",
     "U+0540", "U+0541", "U+0542", "U+0543", "U+0544", "U+0545", "U+0546", "U+0547", "U+0548",
     "U+0549", "U+054A", "U+054B", "U+054C", "U+054D", "U+054E", "U+054F", "U+0550", "U+0551",
     "U+0552", "U+0553", "U+0554", "U+0555", "U+0556", "U+0560", "U+0561", "U+0562", "U+0563",
     "U+0564", "U+0565", "U+0566", "U+0567", "U+0568", "U+0569", "U+056A", "U+056B", "U+056C",
     "U+056D", "U+056E", "U+056F", "U+0570", "U+0571", "U+0572", "U+0573", "U+0574", "U+0575",
     "U+0576", "U+0577", "U+0578", "U+0579", "U+057A", "U+057B", "U+057C", "U+057D", "U+057E",
     "U+057F", "U+0580", "U+0581", "U+0582", "U+0583", "U+0584", "U+0585", "U+0586", "U+0587",
     "U+0588", "U+10A0", "U+10A1", "U+10A2", "U+10A3", "U+10A4", "U+10A5", "U+10A6", "U+10A7",
     "U+10A8", "U+10A9", "U+10AA", "U+10AB", "U+10AC", "U+10AD", "U+10AE", "U+10AF", "U+10B0",
     "U+10B1", "U+10B2", "U+10B3", "U+10B4", "U+10B5", "U+10B6", "U+10B7", "U+10B8", "U+10B9",
     "U+10BA", "U+10BB", "U+10BC", "U+10BD", "U+10BE", "U+10BF", "U+10C0", "U+10C1", "U+10C2",
     "U+10C3", "U+10C4", "U+10C5", "U+10C7", "U+10CD", "U+10D0", "U+10D1", "U+10D2", "U+10D3",
     "U+10D4", "U+10D5", "U+10D6", "U+10D7", "U+10D8", "U+10D9", "U+10DA", "U+10DB", "U+10DC",
     "U+10DD", "U+10DE", "U+10DF", "U+10E0", "U+10E1", "U+10E2", "U+10E3", "U+10E4", "U+10E5",
     "U+10E6", "U+10E7", "U+10E8", "U+10E9", "U+10EA", "U+10EB", "U+10EC", "U+10ED", "U+10EE",
     "U+10EF", "U+10F0", "U+10F1", "U+10F2", "U+10F3", "U+10F4", "U+10F5", "U+10F6", "U+10F7",
     "U+10F8", "U+10F9", "U+10FA", "U+10FD", "U+10FE", "U+10FF", "U+13A0", "U+13A1", "U+13A2",
     "U+13A3", "U+13A4", "U+13A5", "U+13A6", "U+13A7", "U+13A8", "U+13A9", "U+13AA", "U+13AB",
     "U+13AC", "U+13AD", "U+13AE", "U+13AF", "U+13B0", "U+13B1", "U+13B2", "U+13B3", "U+13B4",
     "U+13B5", "U+13B6", "U+13B7", "U+13B8", "U+13B9", "U+13BA", "U+13BB", "U+13BC", "U+13BD",
     "U+13BE", "U+13BF", "U+13C0", "U+13C1", "U+13C2", "U+13C3", "U+13C4", "U+13C5", "U+13C6",
     "U+13C7", "U+13C8", "U+13C9", "U+13CA", "U+13CB", "U+13CC", "U+13CD", "U+13CE", "U+13CF",
     "U+13D0", "U+13D1", "U+13D2", "U+13D3", "U+13D4", "U+13D5", "U+13D6", "U+13D7", "U+13D8",
     "U+13D9", "U+13DA", "U+13DB", "U+13DC", "U+13DD", "U+13DE", "U+13DF", "U+13E0", "U+13E1",
     "U+13E2", "U+13E3", "U+13E4", "U+13E5", "U+13E6", "U+13E7", "U+13E8", "U+13E9", "U+13EA",
     "U+13EB", "U+13EC", "U+13ED", "U+13EE", "U+13EF", "U+13F0", "U+13F1", "U+13F2", "U+13F3",
     "U+13F4", "U+13F5", "U+13F8", "U+13F9", "U+13FA", "U+13FB", "U+13FC", "U+13FD", "U+1C80",
     "U+1C81", "U+1C82", "U+1C83", "U+1C84", "U+1C85", "U+1C86", "U+1C87", "U+1C88", "U+1C89",
     "U+1C8A", "U+1C90", "U+1C91", "U+1C92", "U+1C93", "U+1C94", "U+1C95", "U+1C96", "U+1C97",
     "U+1C98", "U+1C99", "U+1C9A", "U+1C9B", "U+1C9C", "U+1C9D", "U+1C9E", "U+1C9F", "U+1CA0",
     "U+1CA1", "U+1CA2", "U+1CA3", "U+1CA4", "U+1CA5", "U+1CA6", "U+1CA7", "U+1CA8", "U+1CA9",
     "U+1CAA", "U+1CAB", "U+1CAC", "U+1CAD", "U+1CAE", "U+1CAF", "U+1CB0", "U+1CB1", "U+1CB2",
     "U+1CB3", "U+1CB4", "U+1CB5", "U+1CB6", "U+1CB7", "U+1CB8", "U+1CB9", "U+1CBA", "U+1CBD",
     "U+1CBE", "U+1CBF", "U+1D00", "U+1D01", "U+1D02", "U+1D03", "U+1D04", "U+1D05", "U+1D06",
     "U+1D07", "U+1D08", "U+1D09", "U+1D0A", "U+1D0B", "U+1D0C", "U+1D0D", "U+1D0E", "U+1D0F",
     "U+1D10", "U+1D11", "U+1D12", "U+1D13", "U+1D14", "U+1D15", "U+1D16", "U+1D17", "U+1D18",
     "U+1D19", "U+1D1A", "U+1D1B", "U+1D1C", "U+1D1D", "U+1D1E", "U+1D1F", "U+1D20", "U+1D21",
     "U+1D22", "U+1D23", "U+1D24", "U+1D25", "U+1D26", "U+1D27", "U+1D28", "U+1D29", "U+1D2A",
     "U+1D2B", "U+1D6B", "U+1D6C", "U+1D6D", "U+1D6E", "U+1D6F", "U+1D70", "U+1D71", "U+1D72",
     "U+1D73", "U+1D74", "U+1D75", "U+1D76", "U+1D77", "U+1D79", "U+1D7A", "U+1D7B", "U+1D7C",
     "U+1D7D", "U+1D7E", "U+1D7F", "U+1D80", "U+1D81", "U+1D82", "U+1D83", "U+1D84", "U+1D85",
     "U+1D86", "U+1D87", "U+1D88", "U+1D89", "U+1D8A", "U+1D8B", "U+1D8C", "U+1D8D", "U+1D8E",
     "U+1D8F", "U+1D90", "U+1D91", "U+1D92", "U+1D93", "U+1D94", "U+1D95", "U+1D96", "U+1D97",
     "U+1D98", "U+1D99", "U+1D9A", "U+1E00", "U+1E01", "U+1E02", "U+1E03", "U+1E04", "U+1E05",
     "U+1E06", "U+1E07", "U+1E08", "U+1E09", "U+1E0A", "U+1E0B", "U+1E0C", "U+1E0D", "U+1E0E",
     "U+1E0F", "U+1E10", "U+1E11", "U+1E12", "U+1E13", "U+1E14", "U+1E15", "U+1E16", "U+1E17",
     "U+1E18", "U+1E19", "U+1E1A", "U+1E1B", "U+1E1C", "U+1E1D", "U+1E1E", "U+1E1F", "U+1E20",
     "U+1E21", "U+1E22", "U+1E23", "U+1E24", "U+1E25", "U+1E26", "U+1E27", "U+1E28", "U+1E29",
     "U+1E2A", "U+1E2B", "U+1E2C", "U+1E2D", "U+1E2E", "U+1E2F", "U+1E30", "U+1E31", "U+1E32",
     "U+1E33", "U+1E34", "U+1E35", "U+1E36", "U+1E37", "U+1E38", "U+1E39", "U+1E3A", "U+1E3B",
     "U+1E3C", "U+1E3D", "U+1E3E", "U+1E3F", "U+1E40", "U+1E41", "U+1E42", "U+1E43", "U+1E44",
     "U+1E45", "U+1E46", "U+1E47", "U+1E48", "U+1E49", "U+1E4A", "U+1E4B", "U+1E4C", "U+1E4D",
     "U+1E4E", "U+1E4F", "U+1E50", "U+1E51", "U+1E52", "U+1E53", "U+1E54", "U+1E55", "U+1E56",
     "U+1E57", "U+1E58", "U+1E59", "U+1E5A", "U+1E5B", "U+1E5C", "U+1E5D", "U+1E5E", "U+1E5F",
     "U+1E60", "U+1E61", "U+1E62", "U+1E63", "U+1E64", "U+1E65", "U+1E66", "U+1E67", "U+1E68",
     "U+1E69", "U+1E6A", "U+1E6B", "U+1E6C", "U+1E6D", "U+1E6E", "U+1E6F", "U+1E70", "U+1E71",
     "U+1E72", "U+1E73", "U+1E74", "U+1E75", "U+1E76", "U+1E77", "U+1E78", "U+1E79", "U+1E7A",
     "U+1E7B", "U+1E7C", "U+1E7D", "U+1E7E", "U+1E7F", "U+1E80", "U+1E81", "U+1E82", "U+1E83",
     "U+1E84", "U+1E85", "U+1E86", "U+1E87", "U+1E88", "U+1E89", "U+1E8A", "U+1E8B", "U+1E8C",
     "U+1E8D", "U+1E8E", "U+1E8F", "U+1E90", "U+1E91", "U+1E92", "U+1E93", "U+1E94", "U+1E95",
     "U+1E96", "U+1E97", "U+1E98", "U+1E99", "U+1E9A", "U+1E9B", "U+1E9C", "U+1E9D", "U+1E9E",
     "U+1E9F", "U+1EA0", "U+1EA1", "U+1EA2", "U+1EA3", "U+1EA4", "U+1EA5", "U+1EA6", "U+1EA7",
     "U+1EA8", "U+1EA9", "U+1EAA", "U+1EAB", "U+1EAC", "U+1EAD", "U+1EAE", "U+1EAF", "U+1EB0",
     "U+1EB1", "U+1EB2", "U+1EB3", "U+1EB4", "U+1EB5", "U+1EB6", "U+1EB7", "U+1EB8", "U+1EB9",
     "U+1EBA", "U+1EBB", "U+1EBC", "U+1EBD", "U+1EBE", "U+1EBF", "U+1EC0", "U+1EC1", "U+1EC2",
     "U+1EC3", "U+1EC4", "U+1EC5", "U+1EC6", "U+1EC7", "U+1EC8", "U+1EC9", "U+1ECA", "U+1ECB",
     "U+1ECC", "U+1ECD", "U+1ECE", "U+1ECF", "U+1ED0", "U+1ED1", "U+1ED2", "U+1ED3", "U+1ED4",
     "U+1ED5", "U+1ED6", "U+1ED7", "U+1ED8", "U+1ED9", "U+1EDA", "U+1EDB", "U+1EDC", "U+1EDD",
     "U+1EDE", "U+1EDF", "U+1EE0", "U+1EE1", "U+1EE2", "U+1EE3", "U+1EE4", "U+1EE5", "U+1EE6",
     "U+1EE7", "U+1EE8", "U+1EE9", "U+1EEA", "U+1EEB", "U+1EEC", "U+1EED", "U+1EEE", "U+1EEF",
     "U+1EF0", "U+1EF1", "U+1EF2", "U+1EF3", "U+1EF4", "U+1EF5", "U+1EF6", "U+1EF7", "U+1EF8",
     "U+1EF9", "U+1EFA", "U+1EFB", "U+1EFC", "U+1EFD", "U+1EFE", "U+1EFF", "U+1F00", "U+1F01",
     "U+1F02", "U+1F03", "U+1F04", "U+1F05", "U+1F06", "U+1F07", "U+1F08", "U+1F09", "U+1F0A",
     "U+1F0B", "U+1F0C", "U+1F0D", "U+1F0E", "U+1F0F", "U+1F10", "U+1F11", "U+1F12", "U+1F13",
     "U+1F14", "U+1F15", "U+1F18", "U+1F19", "U+1F1A", "U+1F1B", "U+1F1C", "U+1F1D", "U+1F20",
     "U+1F21", "U+1F22", "U+1F23", "U+1F24", "U+1F25", "U+1F26", "U+1F27", "U+1F28", "U+1F29",
     "U+1F2A", "U+1F2B", "U+1F2C", "U+1F2D", "U+1F2E", "U+1F2F", "U+1F30", "U+1F31", "U+1F32",
     "U+1F33", "U+1F34", "U+1F35", "U+1F36", "U+1F37", "U+1F38", "U+1F39", "U+1F3A", "U+1F3B",
     "U+1F3C", "U+1F3D", "U+1F3E", "U+1F3F", "U+1F40", "U+1F41", "U+1F42", "U+1F43", "U+1F44",
     "U+1F45", "U+1F48", "U+1F49", "U+1F4A", "U+1F4B", "U+1F4C", "U+1F4D", "U+1F50", "U+1F51",
     "U+1F52", "U+1F53", "U+1F54", "U+1F55", "U+1F56", "U+1F57", "U+1F59", "U+1F5B", "U+1F5D",
     "U+1F5F", "U+1F60", "U+1F61", "U+1F62", "U+1F63", "U+1F64", "U+1F65", "U+1F66", "U+1F67",
     "U+1F68", "U+1F69", "U+1F6A", "U+1F6B", "U+1F6C", "U+1F6D", "U+1F6E", "U+1F6F", "U+1F70",
     "U+1F71", "U+1F72", "U+1F73", "U+1F74", "U+1F75", "U+1F76", "U+1F77", "U+1F78", "U+1F79",
     "U+1F7A", "U+1F7B", "U+1F7C", "U+1F7D", "U+1F80", "U+1F81", "U+1F82", "U+1F83", "U+1F84",
     "U+1F85", "U+1F86", "U+1F87", "U+1F88", "U+1F89", "U+1F8A", "U+1F8B", "U+1F8C", "U+1F8D",
     "U+1F8E", "U+1F8F", "U+1F90", "U+1F91", "U+1F92", "U+1F93", "U+1F94", "U+1F95", "U+1F96",
     "U+1F97", "U+1F98", "U+1F99", "U+1F9A", "U+1F9B", "U+1F9C", "U+1F9D", "U+1F9E", "U+1F9F",
     "U+1FA0", "U+1FA1", "U+1FA2", "U+1FA3", "U+1FA4", "U+1FA5", "U+1FA6", "U+1FA7", "U+1FA8",
     "U+1FA9", "U+1FAA", "U+1FAB", "U+1FAC", "U+1FAD", "U+1FAE", "U+1FAF", "U+1FB0", "U+1FB1",
     "U+1FB2", "U+1FB3", "U+1FB4", "U+1FB6", "U+1FB7", "U+1FB8", "U+1FB9", "U+1FBA", "U+1FBB",
     "U+1FBC", "U+1FBE", "U+1FC2", "U+1FC3", "U+1FC4", "U+1FC6", "U+1FC7", "U+1FC8", "U+1FC9",
     "U+1FCA", "U+1FCB", "U+1FCC", "U+1FD0", "U+1FD1", "U+1FD2", "U+1FD3", "U+1FD6", "U+1FD7",
     "U+1FD8", "U+1FD9", "U+1FDA", "U+1FDB", "U+1FE0", "U+1FE1", "U+1FE2", "U+1FE3", "U+1FE4",
     "U+1FE5", "U+1FE6", "U+1FE7", "U+1FE8", "U+1FE9", "U+1FEA", "U+1FEB", "U+1FEC", "U+1FF2",
     "U+1FF3", "U+1FF4", "U+1FF6", "U+1FF7", "U+1FF8", "U+1FF9", "U+1FFA", "U+1FFB", "U+1FFC",
     "U+2102", "U+2107", "U+210A", "U+210B", "U+210C", "U+210D", "U+210E", "U+210F", "U+2110",
     "U+2111", "U+2112", "U+2113", "U+2115", "U+2119", "U+211A", "U+211B", "U+211C", "U+211D",
     "U+2124", "U+2126", "U+2128", "U+212A", "U+212B", "U+212C", "U+212D", "U+212F", "U+2130",
     "U+2131", "U+2132", "U+2133", "U+2134", "U+2139", "U+213C", "U+213D", "U+213E", "U+213F",
     "U+2145", "U+2146", "U+2147", "U+2148", "U+2149", "U+214E", "U+2160", "U+2161", "U+2162",
     "U+2163", "U+2164", "U+2165", "U+2166", "U+2167", "U+2168", "U+2169", "U+216A", "U+216B",
     "U+216C", "U+216D", "U+216E", "U+216F", "U+2170", "U+2171", "U+2172", "U+2173", "U+2174",
     "U+2175", "U+2176", "U+2177", "U+2178", "U+2179", "U+217A", "U+217B", "U+217C", "U+217D",
     "U+217E", "U+217F", "U+2183", "U+2184", "U+24B6", "U+24B7", "U+24B8", "U+24B9", "U+24BA",
     "U+24BB", "U+24BC", "U+24BD", "U+24BE", "U+24BF", "U+24C0", "U+24C1", "U+24C2", "U+24C3",
     "U+24C4", "U+24C5", "U+24C6", "U+24C7", "U+24C8", "U+24C9", "U+24CA", "U+24CB", "U+24CC",
     "U+24CD", "U+24CE", "U+24CF", "U+24D0", "U+24D1", "U+24D2", "U+24D3", "U+24D4", "U+24D5",
     "U+24D6", "U+24D7", "U+24D8", "U+24D9", "U+24DA", "U+24DB", "U+24DC", "U+24DD", "U+24DE",
     "U+24DF", "U+24E0", "U+24E1", "U+24E2", "U+24E3", "U+24E4", "U+24E5", "U+24E6", "U+24E7",
     "U+24E8", "U+24E9", "U+2C00", "U+2C01", "U+2C02", "U+2C03", "U+2C04", "U+2C05", "U+2C06",
     "U+2C07", "U+2C08", "U+2C09", "U+2C0A", "U+2C0B", "U+2C0C", "U+2C0D", "U+2C0E", "U+2C0F",
     "U+2C10", "U+2C11", "U+2C12", "U+2C13", "U+2C14", "U+2C15", "U+2C16", "U+2C17", "U+2C18",
     "U+2C19", "U+2C1A", "U+2C1B", "U+2C1C", "U+2C1D", "U+2C1E", "U+2C1F", "U+2C20", "U+2C21",
     "U+2C22", "U+2C23", "U+2C24", "U+2C25", "U+2C26", "U+2C27", "U+2C28", "U+2C29", "U+2C2A",
     "U+2C2B", "U+2C2C", "U+2C2D", "U+2C2E", "U+2C2F", "U+2C30", "U+2C31", "U+2C32", "U+2C33",
     "U+2C34", "U+2C35", "U+2C36", "U+2C37", "U+2C38", "U+2C39", "U+2C3A", "U+2C3B", "U+2C3C",
     "U+2C3D", "U+2C3E", "U+2C3F", "U+2C40", "U+2C41", "U+2C42", "U+2C43", "U+2C44", "U+2C45",
     "U+2C46", "U+2C47", "U+2C48", "U+2C49", "U+2C4A", "U+2C4B", "U+2C4C", "U+2C4D", "U+2C4E",
     "U+2C4F", "U+2C50", "U+2C51", "U+2C52", "U+2C53", "U+2C54", "U+2C55", "U+2C56", "U+2C57",
     "U+2C58", "U+2C59", "U+2C5A", "U+2C5B", "U+2C5C", "U+2C5D", "U+2C5E", "U+2C5F", "U+2C60",
     "U+2C61", "U+2C62", "U+2C63", "U+2C64", "U+2C65", "U+2C66", "U+2C67", "U+2C68", "U+2C69",
     "U+2C6A", "U+2C6B", "U+2C6C", "U+2C6D", "U+2C6E", "U+2C6F", "U+2C70", "U+2C71", "U+2C72",
     "U+2C73", "U+2C74", "U+2C75", "U+2C76", "U+2C77", "U+2C78", "U+2C79", "U+2C7A", "U+2C7B",
     "U+2C7E", "U+2C7F", "U+2C80", "U+2C81", "U+2C82", "U+2C83", "U+2C84", "U+2C85", "U+2C86",
     "U+2C87", "U+2C88", "U+2C89", "U+2C8A", "U+2C8B", "U+2C8C", "U+2C8D", "U+2C8E", "U+2C8F",
     "U+2C90", "U+2C91", "U+2C92", "U+2C93", "U+2C94", "U+2C95", "U+2C96", "U+2C97", "U+2C98",
     "U+2C99", "U+2C9A", "U+2C9B", "U+2C9C", "U+2C9D", "U+2C9E", "U+2C9F", "U+2CA0", "U+2CA1",
     "U+2CA2", "U+2CA3", "U+2CA4", "U+2CA5", "U+2CA6", "U+2CA7", "U+2CA8", "U+2CA9", "U+2CAA",
     "U+2CAB", "U+2CAC", "U+2CAD", "U+2CAE", "U+2CAF", "U+2CB0", "U+2CB1", "U+2CB2", "U+2CB3",
     "U+2CB4", "U+2CB5", "U+2CB6", "U+2CB7", "U+2CB8", "U+2CB9", "U+2CBA", "U+2CBB", "U+2CBC",
     "U+2CBD", "U+2CBE", "U+2CBF", "U+2CC0", "U+2CC1", "U+2CC2", "U+2CC3", "U+2CC4", "U+2CC5",
     "U+2CC6", "U+2CC7", "U+2CC8", "U+2CC9", "U+2CCA", "U+2CCB", "U+2CCC", "U+2CCD", "U+2CCE",
     "U+2CCF", "U+2CD0", "U+2CD1", "U+2CD2", "U+2CD3", "U+2CD4", "U+2CD5", "U+2CD6", "U+2CD7",
     "U+2CD8", "U+2CD9", "U+2CDA", "U+2CDB", "U+2CDC", "U+2CDD", "U+2CDE", "U+2CDF", "U+2CE0",
     "U+2CE1", "U+2CE2", "U+2CE3", "U+2CE4", "U+2CEB", "U+2CEC", "U+2CED", "U+2CEE", "U+2CF2",
     "U+2CF3", "U+2D00", "U+2D01", "U+2D02", "U+2D03", "U+2D04", "U+2D05", "U+2D06", "U+2D07",
     "U+2D08", "U+2D09", "U+2D0A", "U+2D0B", "U+2D0C", "U+2D0D", "U+2D0E", "U+2D0F", "U+2D10",
     "U+2D11", "U+2D12", "U+2D13", "U+2D14", "U+2D15", "U+2D16", "U+2D17", "U+2D18", "U+2D19",
     "U+2D1A", "U+2D1B", "U+2D1C", "U+2D1D", "U+2D1E", "U+2D1F", "U+2D20", "U+2D21", "U+2D22",
     "U+2D23", "U+2D24", "U+2D25", "U+2D27", "U+2D2D", "U+A640", "U+A641", "U+A642", "U+A643",
     "U+A644", "U+A645", "U+A646", "U+A647", "U+A648", "U+A649", "U+A64A", "U+A64B", "U+A64C",
     "U+A64D", "U+A64E", "U+A64F", "U+A650", "U+A651", "U+A652", "U+A653", "U+A654", "U+A655",
     "U+A656", "U+A657", "U+A658", "U+A659", "U+A65A", "U+A65B", "U+A65C", "U+A65D", "U+A65E",
     "U+A65F", "U+A660", "U+A661", "U+A662", "U+A663", "U+A664", "U+A665", "U+A666", "U+A667",
     "U+A668", "U+A669", "U+A66A", "U+A66B", "U+A66C", "U+A66D", "U+A680", "U+A681", "U+A682",
     "U+A683", "U+A684", "U+A685", "U+A686", "U+A687", "U+A688", "U+A689", "U+A68A", "U+A68B",
     "U+A68C", "U+A68D", "U+A68E", "U+A68F", "U+A690", "U+A691", "U+A692", "U+A693", "U+A694",
     "U+A695", "U+A696", "U+A697", "U+A698", "U+A699", "U+A69A", "U+A69B", "U+A722", "U+A723",
     "U+A724", "U+A725", "U+A726", "U+A727", "U+A728", "U+A729", "U+A72A", "U+A72B", "U+A72C",
     "U+A72D", "U+A72E", "U+A72F", "U+A730", "U+A731", "U+A732", "U+A733", "U+A734", "U+A735",
     "U+A736", "U+A737", "U+A738", "U+A739", "U+A73A", "U+A73B", "U+A73C", "U+A73D", "U+A73E",
     "U+A73F", "U+A740", "U+A741", "U+A742", "U+A743", "U+A744", "U+A745", "U+A746", "U+A747",
     "U+A748", "U+A749", "U+A74A", "U+A74B", "U+A74C", "U+A74D", "U+A74E", "U+A74F", "U+A750",
     "U+A751", "U+A752", "U+A753", "U+A754", "U+A755", "U+A756", "U+A757", "U+A758", "U+A759",
     "U+A75A", "U+A75B", "U+A75C", "U+A75D", "U+A75E", "U+A75F", "U+A760", "U+A761", "U+A762",
     "U+A763", "U+A764", "U+A765", "U+A766", "U+A767", "U+A768", "U+A769", "U+A76A", "U+A76B",
     "U+A76C", "U+A76D", "U+A76E", "U+A76F", "U+A771", "U+A772", "U+A773", "U+A774", "U+A775",
     "U+A776", "U+A777", "U+A778", "U+A779", "U+A77A", "U+A77B", "U+A77C", "U+A77D", "U+A77E",
     "U+A77F", "U+A780", "U+A781", "U+A782", "U+A783", "U+A784", "U+A785", "U+A786", "U+A787",
     "U+A78B", "U+A78C", "U+A78D", "U+A78E", "U+A790", "U+A791", "U+A792", "U+A793", "U+A794",
     "U+A795", "U+A796", "U+A797", "U+A798", "U+A799", "U+A79A", "U+A79B", "U+A79C", "U+A79D",
     "U+A79E", "U+A79F", "U+A7A0", "U+A7A1", "U+A7A2", "U+A7A3", "U+A7A4", "U+A7A5", "U+A7A6",
     "U+A7A7", "U+A7A8", "U+A7A9", "U+A7AA", "U+A7AB", "U+A7AC", "U+A7AD", "U+A7AE", "U+A7AF",
     "U+A7B0", "U+A7B1", "U+A7B2", "U+A7B3", "U+A7B4", "U+A7B5", "U+A7B6", "U+A7B7", "U+A7B8",
     "U+A7B9", "U+A7BA", "U+A7BB", "U+A7BC", "U+A7BD", "U+A7BE", "U+A7BF", "U+A7C0", "U+A7C1",
     "U+A7C2", "U+A7C3", "U+A7C4", "U+A7C5", "U+A7C6", "U+A7C7", "U+A7C8", "U+A7C9", "U+A7CA",
     "U+A7CB", "U+A7CC", "U+A7CD", "U+A7CE", "U+A7CF", "U+A7D0", "U+A7D1", "U+A7D2", "U+A7D3",
     "U+A7D4", "U+A7D5", "U+A7D6", "U+A7D7", "U+A7D8", "U+A7D9", "U+A7DA", "U+A7DB", "U+A7DC",
     "U+A7F5", "U+A7F6", "U+A7FA", "U+AB30", "U+AB31", "U+AB32", "U+AB33", "U+AB34", "U+AB35",
     "U+AB36", "U+AB37", "U+AB38", "U+AB39", "U+AB3A", "U+AB3B", "U+AB3C", "U+AB3D", "U+AB3E",
     "U+AB3F", "U+AB40", "U+AB41", "U+AB42", "U+AB43", "U+AB44", "U+AB45", "U+AB46", "U+AB47",
     "U+AB48", "U+AB49", "U+AB4A", "U+AB4B", "U+AB4C", "U+AB4D", "U+AB4E", "U+AB4F", "U+AB50",
     "U+AB51", "U+AB52", "U+AB53", "U+AB54", "U+AB55", "U+AB56", "U+AB57", "U+AB58", "U+AB59",
     "U+AB5A", "U+AB60", "U+AB61", "U+AB62", "U+AB63", "U+AB64", "U+AB65", "U+AB66", "U+AB67",
     "U+AB68", "U+AB70", "U+AB71", "U+AB72", "U+AB73", "U+AB74", "U+AB75", "U+AB76", "U+AB77",
     "U+AB78", "U+AB79", "U+AB7A", "U+AB7B", "U+AB7C", "U+AB7D", "U+AB7E", "U+AB7F", "U+AB80",
     "U+AB81", "U+AB82", "U+AB83", "U+AB84", "U+AB85", "U+AB86", "U+AB87", "U+AB88", "U+AB89",
     "U+AB8A", "U+AB8B", "U+AB8C", "U+AB8D", "U+AB8E", "U+AB8F", "U+AB90", "U+AB91", "U+AB92",
     "U+AB93", "U+AB94", "U+AB95", "U+AB96", "U+AB97", "U+AB98", "U+AB99", "U+AB9A", "U+AB9B",
     "U+AB9C", "U+AB9D", "U+AB9E", "U+AB9F", "U+ABA0", "U+ABA1", "U+ABA2", "U+ABA3", "U+ABA4",
     "U+ABA5", "U+ABA6", "U+ABA7", "U+ABA8", "U+ABA9", "U+ABAA", "U+ABAB", "U+ABAC", "U+ABAD",
     "U+ABAE", "U+ABAF", "U+ABB0", "U+ABB1", "U+ABB2", "U+ABB3", "U+ABB4", "U+ABB5", "U+ABB6",
     "U+ABB7", "U+ABB8", "U+ABB9", "U+ABBA", "U+ABBB", "U+ABBC", "U+ABBD", "U+ABBE", "U+ABBF",
     "U+FB00", "U+FB01", "U+FB02", "U+FB03", "U+FB04", "U+FB05", "U+FB06", "U+FB13", "U+FB14",
     "U+FB15", "U+FB16", "U+FB17", "U+FF21", "U+FF22", "U+FF23", "U+FF24", "U+FF25", "U+FF26",
     "U+FF27", "U+FF28", "U+FF29", "U+FF2A", "U+FF2B", "U+FF2C", "U+FF2D", "U+FF2E", "U+FF2F",
     "U+FF30", "U+FF31", "U+FF32", "U+FF33", "U+FF34", "U+FF35", "U+FF36", "U+FF37", "U+FF38",
     "U+FF39", "U+FF3A", "U+FF41", "U+FF42", "U+FF43", "U+FF44", "U+FF45", "U+FF46", "U+FF47",
     "U+FF48", "U+FF49", "U+FF4A", "U+FF4B", "U+FF4C", "U+FF4D", "U+FF4E", "U+FF4F", "U+FF50",
     "U+FF51", "U+FF52", "U+FF53", "U+FF54", "U+FF55", "U+FF56", "U+FF57", "U+FF58", "U+FF59",
     "U+FF5A"
    }

CasedPairs ==
    {
     <<"U+D801", "U+DC00">>, <<"U+D801", "U+DC01">>, <<"U+D801", "U+DC02">>,
     <<"U+D801", "U+DC03">>, <<"U+D801", "U+DC04">>, <<"U+D801", "U+DC05">>,
     <<"U+D801", "U+DC06">>, <<"U+D801", "U+DC07">>, <<"U+D801", "U+DC08">>,
     <<"U+D801", "U+DC09">>, <<"U+D801", "U+DC0A">>, <<"U+D801", "U+DC0B">>,
     <<"U+D801", "U+DC0C">>, <<"U+D801", "U+DC0D">>, <<"U+D801", "U+DC0E">>,
     <<"U+D801", "U+DC0F">>, <<"U+D801", "U+DC10">>, <<"U+D801", "U+DC11">>,
     <<"U+D801", "U+DC12">>, <<"U+D801", "U+DC13">>, <<"U+D801", "U+DC14">>,
     <<"U+D801", "U+DC15">>, <<"U+D801", "U+DC16">>, <<"U+D801", "U+DC17">>,
     <<"U+D801", "U+DC18">>, <<"U+D801", "U+DC19">>, <<"U+D801", "U+DC1A">>,
     <<"U+D801", "U+DC1B">>, <<"U+D801", "U+DC1C">>, <<"U+D801", "U+DC1D">>,
     <<"U+D801", "U+DC1E">>, <<"U+D801", "U+DC1F">>, <<"U+D801", "U+DC20">>,
     <<"U+D801", "U+DC21">>, <<"U+D801", "U+DC22">>, <<"U+D801", "U+DC23">>,
     <<"U+D801", "U+DC24">>, <<"U+D801", "U+DC25">>, <<"U+D801", "U+DC26">>,
     <<"U+D801", "U+DC27">>, <<"U+D801", "U+DC28">>, <<"U+D801", "U+DC29">>,
     <<"U+D801", "U+DC2A">>, <<"U+D801", "U+DC2B">>, <<"U+D801", "U+DC2C">>,
     <<"U+D801", "U+DC2D">>, <<"U+D801", "U+DC2E">>, <<"U+D801", "U+DC2F">>,
     <<"U+D801", "U+DC30">>, <<"U+D801", "U+DC31">>, <<"U+D801", "U+DC32">>,
     <<"U+D801", "U+DC33">>, <<"U+D801", "U+DC34">>, <<"U+D801", "U+DC35">>,
     <<"U+D801", "U+DC36">>, <<"U+D801", "U+DC37">>, <<"U+D801", "U+DC38">>,
     <<"U+D801", "U+DC39">>, <<"U+D801", "U+DC3A">>, <<"U+D801", "U+DC3B">>,
     <<"U+D801", "U+DC3C">>, <<"U+D801", "U+DC3D">>, <<"U+D801", "U+DC3E">>,
     <<"U+D801", "U+DC3F">>, <<"U+D801", "U+DC40">>, <<"U+D801", "U+DC41">>,
     <<"U+D801", "U+DC42">>, <<"U+D801", "U+DC43">>, <<"U+D801", "U+DC44">>,
     <<"U+D801", "U+DC45">>, <<"U+D801", "U+DC46">>, <<"U+D801", "U+DC47">>,
     <<"U+D801", "U+DC48">>, <<"U+D801", "U+DC49">>, <<"U+D801", "U+DC4A">>,
     <<"U+D801", "U+DC4B">>, <<"U+D801", "U+DC4C">>, <<"U+D801", "U+DC4D">>,
     <<"U+D801", "U+DC4E">>, <<"U+D801", "U+DC4F">>, <<"U+D801", "U+DCB0">>,
     <<"U+D801", "U+DCB1">>, <<"U+D801", "U+DCB2">>, <<"U+D801", "U+DCB3">>,
     <<"U+D801", "U+DCB4">>, <<"U+D801", "U+DCB5">>, <<"U+D801", "U+DCB6">>,
     <<"U+D801", "U+DCB7">>, <<"U+D801", "U+DCB8">>, <<"U+D801", "U+DCB9">>,
     <<"U+D801", "U+DCBA">>, <<"U+D801", "U+DCBB">>, <<"U+D801", "U+DCBC">>,
     <<"U+D801", "U+DCBD">>, <<"U+D801", "U+DCBE">>, <<"U+D801", "U+DCBF">>,
     <<"U+D801", "U+DCC0">>, <<"U+D801", "U+DCC1">>, <<"U+D801", "U+DCC2">>,
     <<"U+D801", "U+DCC3">>, <<"U+D801", "U+DCC4">>, <<"U+D801", "U+DCC5">>,
     <<"U+D801", "U+DCC6">>, <<"U+D801", "U+DCC7">>, <<"U+D801", "U+DCC8">>,
     <<"U+D801", "U+DCC9">>, <<"U+D801", "U+DCCA">>, <<"U+D801", "U+DCCB">>,
     <<"U+D801", "U+DCCC">>, <<"U+D801", "U+DCCD">>, <<"U+D801", "U+DCCE">>,
     <<"U+D801", "U+DCCF">>, <<"U+D801", "U+DCD0">>, <<"U+D801", "U+DCD1">>,
     <<"U+D801", "U+DCD2">>, <<"U+D801", "U+DCD3">>, <<"U+D801", "U+DCD8">>,
     <<"U+D801", "U+DCD9">>, <<"U+D801", "U+DCDA">>, <<"U+D801", "U+DCDB">>,
     <<"U+D801", "U+DCDC">>, <<"U+D801", "U+DCDD">>, <<"U+D801", "U+DCDE">>,
     <<"U+D801", "U+DCDF">>, <<"U+D801", "U+DCE0">>, <<"U+D801", "U+DCE1">>,
     <<"U+D801", "U+DCE2">>, <<"U+D801", "U+DCE3">>, <<"U+D801", "U+DCE4">>,
     <<"U+D801", "U+DCE5">>, <<"U+D801", "U+DCE6">>, <<"U+D801", "U+DCE7">>,
     <<"U+D801", "U+DCE8">>, <<"U+D801", "U+DCE9">>, <<"U+D801", "U+DCEA">>,
     <<"U+D801", "U+DCEB">>, <<"U+D801", "U+DCEC">>, <<"U+D801", "U+DCED">>,
     <<"U+D801", "U+DCEE">>, <<"U+D801", "U+DCEF">>, <<"U+D801", "U+DCF0">>,
     <<"U+D801", "U+DCF1">>, <<"U+D801", "U+DCF2">>, <<"U+D801", "U+DCF3">>,
     <<"U+D801", "U+DCF4">>, <<"U+D801", "U+DCF5">>, <<"U+D801", "U+DCF6">>,
     <<"U+D801", "U+DCF7">>, <<"U+D801", "U+DCF8">>, <<"U+D801", "U+DCF9">>,
     <<"U+D801", "U+DCFA">>, <<"U+D801", "U+DCFB">>, <<"U+D801", "U+DD70">>,
     <<"U+D801", "U+DD71">>, <<"U+D801", "U+DD72">>, <<"U+D801", "U+DD73">>,
     <<"U+D801", "U+DD74">>, <<"U+D801", "U+DD75">>, <<"U+D801", "U+DD76">>,
     <<"U+D801", "U+DD77">>, <<"U+D801", "U+DD78">>, <<"U+D801", "U+DD79">>,
     <<"U+D801", "U+DD7A">>, <<"U+D801", "U+DD7C">>, <<"U+D801", "U+DD7D">>,
     <<"U+D801", "U+DD7E">>, <<"U+D801", "U+DD7F">>, <<"U+D801", "U+DD80">>,
     <<"U+D801", "U+DD81">>, <<"U+D801", "U+DD82">>, <<"U+D801", "U+DD83">>,
     <<"U+D801", "U+DD84">>, <<"U+D801", "U+DD85">>, <<"U+D801", "U+DD86">>,
     <<"U+D801", "U+DD87">>, <<"U+D801", "U+DD88">>, <<"U+D801", "U+DD89">>,
     <<"U+D801", "U+DD8A">>, <<"U+D801", "U+DD8C">>, <<"U+D801", "U+DD8D">>,
     <<"U+D801", "U+DD8E">>, <<"U+D801", "U+DD8F">>, <<"U+D801", "U+DD90">>,
     <<"U+D801", "U+DD91">>, <<"U+D801", "U+DD92">>, <<"U+D801", "U+DD94">>,
     <<"U+D801", "U+DD95">>, <<"U+D801", "U+DD97">>, <<"U+D801", "U+DD98">>,
     <<"U+D801", "U+DD99">>, <<"U+D801", "U+DD9A">>, <<"U+D801", "U+DD9B">>,
     <<"U+D801", "U+DD9C">>, <<"U+D801", "U+DD9D">>, <<"U+D801", "U+DD9E">>,
     <<"U+D801", "U+DD9F">>, <<"U+D801", "U+DDA0">>, <<"U+D801", "U+DDA1">>,
     <<"U+D801", "U+DDA3">>, <<"U+D801", "U+DDA4">>, <<"U+D801", "U+DDA5">>,
     <<"U+D801", "U+DDA6">>, <<"U+D801", "U+DDA7">>, <<"U+D801", "U+DDA8">>,
     <<"U+D801", "U+DDA9">>, <<"U+D801", "U+DDAA">>, <<"U+D801", "U+DDAB">>,
     <<"U+D801", "U+DDAC">>, <<"U+D801", "U+DDAD">>, <<"U+D801", "U+DDAE">>,
     <<"U+D801", "U+DDAF">>, <<"U+D801", "U+DDB0">>, <<"U+D801", "U+DDB1">>,
     <<"U+D801", "U+DDB3">>, <<"U+D801", "U+DDB4">>, <<"U+D801", "U+DDB5">>,
     <<"U+D801", "U+DDB6">>, <<"U+D801", "U+DDB7">>, <<"U+D801", "U+DDB8">>,
     <<"U+D801", "U+DDB9">>, <<"U+D801", "U+DDBB">>, <<"U+D801", "U+DDBC">>,
     <<"U+D803", "U+DC80">>, <<"U+D803", "U+DC81">>, <<"U+D803", "U+DC82">>,
     <<"U+D803", "U+DC83">>, <<"U+D803", "U+DC84">>, <<"U+D803", "U+DC85">>,
     <<"U+D803", "U+DC86">>, <<"U+D803", "U+DC87">>, <<"U+D803", "U+DC88">>,
     <<"U+D803", "U+DC89">>, <<"U+D803", "U+DC8A">>, <<"U+D803", "U+DC8B">>,
     <<"U+D803", "U+DC8C">>, <<"U+D803", "U+DC8D">>, <<"U+D803", "U+DC8E">>,
     <<"U+D803", "U+DC8F">>, <<"U+D803", "U+DC90">>, <<"U+D803", "U+DC91">>,
     <<"U+D803", "U+DC92">>, <<"U+D803", "U+DC93">>, <<"U+D803", "U+DC94">>,
     <<"U+D803", "U+DC95">>, <<"U+D803", "U+DC96">>, <<"U+D803", "U+DC97">>,
     <<"U+D803", "U+DC98">>, <<"U+D803", "U+DC99">>, <<"U+D803", "U+DC9A">>,
     <<"U+D803", "U+DC9B">>, <<"U+D803", "U+DC9C">>, <<"U+D803", "U+DC9D">>,
     <<"U+D803", "U+DC9E">>, <<"U+D803", "U+DC9F">>, <<"U+D803", "U+DCA0">>,
     <<"U+D803", "U+DCA1">>, <<"U+D803", "U+DCA2">>, <<"U+D803", "U+DCA3">>,
     <<"U+D803", "U+DCA4">>, <<"U+D803", "U+DCA5">>, <<"U+D803", "U+DCA6">>,
     <<"U+D803", "U+DCA7">>, <<"U+D803", "U+DCA8">>, <<"U+D803", "U+DCA9">>,
     <<"U+D803", "U+DCAA">>, <<"U+D803", "U+DCAB">>, <<"U+D803", "U+DCAC">>,
     <<"U+D803", "U+DCAD">>, <<"U+D803", "U+DCAE">>, <<"U+D803", "U+DCAF">>,
     <<"U+D803", "U+DCB0">>, <<"U+D803", "U+DCB1">>, <<"U+D803", "U+DCB2">>,
     <<"U+D803", "U+DCC0">>, <<"U+D803", "U+DCC1">>, <<"U+D803", "U+DCC2">>,
     <<"U+D803", "U+DCC3">>, <<"U+D803", "U+DCC4">>, <<"U+D803", "U+DCC5">>,
     <<"U+D803", "U+DCC6">>, <<"U+D803", "U+DCC7">>, <<"U+D803", "U+DCC8">>,
     <<"U+D803", "U+DCC9">>, <<"U+D803", "U+DCCA">>, <<"U+D803", "U+DCCB">>,
     <<"U+D803", "U+DCCC">>, <<"U+D803", "U+DCCD">>, <<"U+D803", "U+DCCE">>,
     <<"U+D803", "U+DCCF">>, <<"U+D803", "U+DCD0">>, <<"U+D803", "U+DCD1">>,
     <<"U+D803", "U+DCD2">>, <<"U+D803", "U+DCD3">>, <<"U+D803", "U+DCD4">>,
     <<"U+D803", "U+DCD5">>, <<"U+D803", "U+DCD6">>, <<"U+D803", "U+DCD7">>,
     <<"U+D803", "U+DCD8">>, <<"U+D803", "U+DCD9">>, <<"U+D803", "U+DCDA">>,
     <<"U+D803", "U+DCDB">>, <<"U+D803", "U+DCDC">>, <<"U+D803", "U+DCDD">>,
     <<"U+D803", "U+DCDE">>, <<"U+D803", "U+DCDF">>, <<"U+D803", "U+DCE0">>,
     <<"U+D803", "U+DCE1">>, <<"U+D803", "U+DCE2">>, <<"U+D803", "U+DCE3">>,
     <<"U+D803", "U+DCE4">>, <<"U+D803", "U+DCE5">>, <<"U+D803", "U+DCE6">>,
     <<"U+D803", "U+DCE7">>, <<"U+D803", "U+DCE8">>, <<"U+D803", "U+DCE9">>,
     <<"U+D803", "U+DCEA">>, <<"U+D803", "U+DCEB">>, <<"U+D803", "U+DCEC">>,
     <<"U+D803", "U+DCED">>, <<"U+D803", "U+DCEE">>, <<"U+D803", "U+DCEF">>,
     <<"U+D803", "U+DCF0">>, <<"U+D803", "U+DCF1">>, <<"U+D803", "U+DCF2">>,
     <<"U+D803", "U+DD50">>, <<"U+D803", "U+DD51">>, <<"U+D803", "U+DD52">>,
     <<"U+D803", "U+DD53">>, <<"U+D803", "U+DD54">>, <<"U+D803", "U+DD55">>,
     <<"U+D803", "U+DD56">>, <<"U+D803", "U+DD57">>, <<"U+D803", "U+DD58">>,
     <<"U+D803", "U+DD59">>, <<"U+D803", "U+DD5A">>, <<"U+D803", "U+DD5B">>,
     <<"U+D803", "U+DD5C">>, <<"U+D803", "U+DD5D">>, <<"U+D803", "U+DD5E">>,
     <<"U+D803", "U+DD5F">>, <<"U+D803", "U+DD60">>, <<"U+D803", "U+DD61">>,
     <<"U+D803", "U+DD62">>, <<"U+D803", "U+DD63">>, <<"U+D803", "U+DD64">>,
     <<"U+D803", "U+DD65">>, <<"U+D803", "U+DD70">>, <<"U+D803", "U+DD71">>,
     <<"U+D803", "U+DD72">>, <<"U+D803", "U+DD73">>, <<"U+D803", "U+DD74">>,
     <<"U+D803", "U+DD75">>, <<"U+D803", "U+DD76">>, <<"U+D803", "U+DD77">>,
     <<"U+D803", "U+DD78">>, <<"U+D803", "U+DD79">>, <<"U+D803", "U+DD7A">>,
     <<"U+D803", "U+DD7B">>, <<"U+D803", "U+DD7C">>, <<"U+D803", "U+DD7D">>,
     <<"U+D803", "U+DD7E">>, <<"U+D803", "U+DD7F">>, <<"U+D803", "U+DD80">>,
     <<"U+D803", "U+DD81">>, <<"U+D803", "U+DD82">>, <<"U+D803", "U+DD83">>,
     <<"U+D803", "U+DD84">>, <<"U+D803", "U+DD85">>, <<"U+D806", "U+DCA0">>,
     <<"U+D806", "U+DCA1">>, <<"U+D806", "U+DCA2">>, <<"U+D806", "U+DCA3">>,
     <<"U+D806", "U+DCA4">>, <<"U+D806", "U+DCA5">>, <<"U+D806", "U+DCA6">>,
     <<"U+D806", "U+DCA7">>, <<"U+D806", "U+DCA8">>, <<"U+D806", "U+DCA9">>,
     <<"U+D806", "U+DCAA">>, <<"U+D806", "U+DCAB">>, <<"U+D806", "U+DCAC">>,
     <<"U+D806", "U+DCAD">>, <<"U+D806", "U+DCAE">>, <<"U+D806", "U+DCAF">>,
     <<"U+D806", "U+DCB0">>, <<"U+D806", "U+DCB1">>, <<"U+D806", "U+DCB2">>,
     <<"U+D806", "U+DCB3">>, <<"U+D806", "U+DCB4">>, <<"U+D806", "U+DCB5">>,
     <<"U+D806", "U+DCB6">>, <<"U+D806", "U+DCB7">>, <<"U+D806", "U+DCB8">>,
     <<"U+D806", "U+DCB9">>, <<"U+D806", "U+DCBA">>, <<"U+D806", "U+DCBB">>,
     <<"U+D806", "U+DCBC">>, <<"U+D806", "U+DCBD">>, <<"U+D806", "U+DCBE">>,
     <<"U+D806", "U+DCBF">>, <<"U+D806", "U+DCC0">>, <<"U+D806", "U+DCC1">>,
     <<"U+D806", "U+DCC2">>, <<"U+D806", "U+DCC3">>, <<"U+D806", "U+DCC4">>,
     <<"U+D806", "U+DCC5">>, <<"U+D806", "U+DCC6">>, <<"U+D806", "U+DCC7">>,
     <<"U+D806", "U+DCC8">>, <<"U+D806", "U+DCC9">>, <<"U+D806", "U+DCCA">>,
     <<"U+D806", "U+DCCB">>, <<"U+D806", "U+DCCC">>, <<"U+D806", "U+DCCD">>,
     <<"U+D806", "U+DCCE">>, <<"U+D806", "U+DCCF">>, <<"U+D806", "U+DCD0">>,
     <<"U+D806", "U+DCD1">>, <<"U+D806", "U+DCD2">>, <<"U+D806", "U+DCD3">>,
     <<"U+D806", "U+DCD4">>, <<"U+D806", "U+DCD5">>, <<"U+D806", "U+DCD6">>,
     <<"U+D806", "U+DCD7">>, <<"U+D806", "U+DCD8">>, <<"U+D806", "U+DCD9">>,
     <<"U+D806", "U+DCDA">>, <<"U+D806", "U+DCDB">>, <<"U+D806", "U+DCDC">>,
     <<"U+D806", "U+DCDD">>, <<"U+D806", "U+DCDE">>, <<"U+D806", "U+DCDF">>,
     <<"U+D81B", "U+DE40">>, <<"U+D81B", "U+DE41">>, <<"U+D81B", "U+DE42">>,
     <<"U+D81B", "U+DE43">>, <<"U+D81B", "U+DE44">>, <<"U+D81B", "U+DE45">>,
     <<"U+D81B", "U+DE46">>, <<"U+D81B", "U+DE47">>, <<"U+D81B", "U+DE48">>,
     <<"U+D81B", "U+DE49">>, <<"U+D81B", "U+DE4A">>, <<"U+D81B", "U+DE4B">>,
     <<"U+D81B", "U+DE4C">>, <<"U+D81B", "U+DE4D">>, <<"U+D81B", "U+DE4E">>,
     <<"U+D81B", "U+DE4F">>, <<"U+D81B", "U+DE50">>, <<"U+D81B", "U+DE51">>,
     <<"U+D81B", "U+DE52">>, <<"U+D81B", "U+DE53">>, <<"U+D81B", "U+DE54">>,
     <<"U+D81B", "U+DE55">>, <<"U+D81B", "U+DE56">>, <<"U+D81B", "U+DE57">>,
     <<"U+D81B", "U+DE58">>, <<"U+D81B", "U+DE59">>, <<"U+D81B", "U+DE5A">>,
     <<"U+D81B", "U+DE5B">>, <<"U+D81B", "U+DE5C">>, <<"U+D81B", "U+DE5D">>,
     <<"U+D81B", "U+DE5E">>, <<"U+D81B", "U+DE5F">>, <<"U+D81B", "U+DE60">>,
     <<"U+D81B", "U+DE61">>, <<"U+D81B", "U+DE62">>, <<"U+D81B", "U+DE63">>,
     <<"U+D81B", "U+DE64">>, <<"U+D81B", "U+DE65">>, <<"U+D81B", "U+DE66">>,
     <<"U+D81B", "U+DE67">>, <<"U+D81B", "U+DE68">>, <<"U+D81B", "U+DE69">>,
     <<"U+D81B", "U+DE6A">>, <<"U+D81B", "U+DE6B">>, <<"U+D81B", "U+DE6C">>,
     <<"U+D81B", "U+DE6D">>, <<"U+D81B", "U+DE6E">>, <<"U+D81B", "U+DE6F">>,
     <<"U+D81B", "U+DE70">>, <<"U+D81B", "U+DE71">>, <<"U+D81B", "U+DE72">>,
     <<"U+D81B", "U+DE73">>, <<"U+D81B", "U+DE74">>, <<"U+D81B", "U+DE75">>,
     <<"U+D81B", "U+DE76">>, <<"U+D81B", "U+DE77">>, <<"U+D81B", "U+DE78">>,
     <<"U+D81B", "U+DE79">>, <<"U+D81B", "U+DE7A">>, <<"U+D81B", "U+DE7B">>,
     <<"U+D81B", "U+DE7C">>, <<"U+D81B", "U+DE7D">>, <<"U+D81B", "U+DE7E">>,
     <<"U+D81B", "U+DE7F">>, <<"U+D81B", "U+DEA0">>, <<"U+D81B", "U+DEA1">>,
     <<"U+D81B", "U+DEA2">>, <<"U+D81B", "U+DEA3">>, <<"U+D81B", "U+DEA4">>,
     <<"U+D81B", "U+DEA5">>, <<"U+D81B", "U+DEA6">>, <<"U+D81B", "U+DEA7">>,
     <<"U+D81B", "U+DEA8">>, <<"U+D81B", "U+DEA9">>, <<"U+D81B", "U+DEAA">>,
     <<"U+D81B", "U+DEAB">>, <<"U+D81B", "U+DEAC">>, <<"U+D81B", "U+DEAD">>,
     <<"U+D81B", "U+DEAE">>, <<"U+D81B", "U+DEAF">>, <<"U+D81B", "U+DEB0">>,
     <<"U+D81B", "U+DEB1">>, <<"U+D81B", "U+DEB2">>, <<"U+D81B", "U+DEB3">>,
     <<"U+D81B", "U+DEB4">>, <<"U+D81B", "U+DEB5">>, <<"U+D81B", "U+DEB6">>,
     <<"U+D81B", "U+DEB7">>, <<"U+D81B", "U+DEB8">>, <<"U+D81B", "U+DEBB">>,
     <<"U+D81B", "U+DEBC">>, <<"U+D81B", "U+DEBD">>, <<"U+D81B", "U+DEBE">>,
     <<"U+D81B", "U+DEBF">>, <<"U+D81B", "U+DEC0">>, <<"U+D81B", "U+DEC1">>,
     <<"U+D81B", "U+DEC2">>, <<"U+D81B", "U+DEC3">>, <<"U+D81B", "U+DEC4">>,
     <<"U+D81B", "U+DEC5">>, <<"U+D81B", "U+DEC6">>, <<"U+D81B", "U+DEC7">>,
     <<"U+D81B", "U+DEC8">>, <<"U+D81B", "U+DEC9">>, <<"U+D81B", "U+DECA">>,
     <<"U+D81B", "U+DECB">>, <<"U+D81B", "U+DECC">>, <<"U+D81B", "U+DECD">>,
     <<"U+D81B", "U+DECE">>, <<"U+D81B", "U+DECF">>, <<"U+D81B", "U+DED0">>,
     <<"U+D81B", "U+DED1">>, <<"U+D81B", "U+DED2">>, <<"U+D81B", "U+DED3">>,
     <<"U+D835", "U+DC00">>, <<"U+D835", "U+DC01">>, <<"U+D835", "U+DC02">>,
     <<"U+D835", "U+DC03">>, <<"U+D835", "U+DC04">>, <<"U+D835", "U+DC05">>,
     <<"U+D835", "U+DC06">>, <<"U+D835", "U+DC07">>, <<"U+D835", "U+DC08">>,
     <<"U+D835", "U+DC09">>, <<"U+D835", "U+DC0A">>, <<"U+D835", "U+DC0B">>,
     <<"U+D835", "U+DC0C">>, <<"U+D835", "U+DC0D">>, <<"U+D835", "U+DC0E">>,
     <<"U+D835", "U+DC0F">>, <<"U+D835", "U+DC10">>, <<"U+D835", "U+DC11">>,
     <<"U+D835", "U+DC12">>, <<"U+D835", "U+DC13">>, <<"U+D835", "U+DC14">>,
     <<"U+D835", "U+DC15">>, <<"U+D835", "U+DC16">>, <<"U+D835", "U+DC17">>,
     <<"U+D835", "U+DC18">>, <<"U+D835", "U+DC19">>, <<"U+D835", "U+DC1A">>,
     <<"U+D835", "U+DC1B">>, <<"U+D835", "U+DC1C">>, <<"U+D835", "U+DC1D">>,
     <<"U+D835", "U+DC1E">>, <<"U+D835", "U+DC1F">>, <<"U+D835", "U+DC20">>,
     <<"U+D835", "U+DC21">>, <<"U+D835", "U+DC22">>, <<"U+D835", "U+DC23">>,
     <<"U+D835", "U+DC24">>, <<"U+D835", "U+DC25">>, <<"U+D835", "U+DC26">>,
     <<"U+D835", "U+DC27">>, <<"U+D835", "U+DC28">>, <<"U+D835", "U+DC29">>,
     <<"U+D835", "U+DC2A">>, <<"U+D835", "U+DC2B">>, <<"U+D835", "U+DC2C">>,
     <<"U+D835", "U+DC2D">>, <<"U+D835", "U+DC2E">>, <<"U+D835", "U+DC2F">>,
     <<"U+D835", "U+DC30">>, <<"U+D835", "U+DC31">>, <<"U+D835", "U+DC32">>,
     <<"U+D835", "U+DC33">>, <<"U+D835", "U+DC34">>, <<"U+D835", "U+DC35">>,
     <<"U+D835", "U+DC36">>, <<"U+D835", "U+DC37">>, <<"U+D835", "U+DC38">>,
     <<"U+D835", "U+DC39">>, <<"U+D835", "U+DC3A">>, <<"U+D835", "U+DC3B">>,
     <<"U+D835", "U+DC3C">>, <<"U+D835", "U+DC3D">>, <<"U+D835", "U+DC3E">>,
     <<"U+D835", "U+DC3F">>, <<"U+D835", "U+DC40">>, <<"U+D835", "U+DC41">>,
     <<"U+D835", "U+DC42">>, <<"U+D835", "U+DC43">>, <<"U+D835", "U+DC44">>,
     <<"U+D835", "U+DC45">>, <<"U+D835", "U+DC46">>, <<"U+D835", "U+DC47">>,
     <<"U+D835", "U+DC48">>, <<"U+D835", "U+DC49">>, <<"U+D835", "U+DC4A">>,
     <<"U+D835", "U+DC4B">>, <<"U+D835", "U+DC4C">>, <<"U+D835", "U+DC4D">>,
     <<"U+D835", "U+DC4E">>, <<"U+D835", "U+DC4F">>, <<"U+D835", "U+DC50">>,
     <<"U+D835", "U+DC51">>, <<"U+D835", "U+DC52">>, <<"U+D835", "U+DC53">>,
     <<"U+D835", "U+DC54">>, <<"U+D835", "U+DC56">>, <<"U+D835", "U+DC57">>,
     <<"U+D835", "U+DC58">>, <<"U+D835", "U+DC59">>, <<"U+D835", "U+DC5A">>,
     <<"U+D835", "U+DC5B">>, <<"U+D835", "U+DC5C">>, <<"U+D835", "U+DC5D">>,
     <<"U+D835", "U+DC5E">>, <<"U+D835", "U+DC5F">>, <<"U+D835", "U+DC60">>,
     <<"U+D835", "U+DC61">>, <<"U+D835", "U+DC62">>, <<"U+D835", "U+DC63">>,
     <<"U+D835", "U+DC64">>, <<"U+D835", "U+DC65">>, <<"U+D835", "U+DC66">>,
     <<"U+D835", "U+DC67">>, <<"U+D835", "U+DC68">>, <<"U+D835", "U+DC69">>,
     <<"U+D835", "U+DC6A">>, <<"U+D835", "U+DC6B">>, <<"U+D835", "U+DC6C">>,
     <<"U+D835", "U+DC6D">>, <<"U+D835", "U+DC6E">>, <<"U+D835", "U+DC6F">>,
     <<"U+D835", "U+DC70">>, <<"U+D835", "U+DC71">>, <<"U+D835", "U+DC72">>,
     <<"U+D835", "U+DC73">>, <<"U+D835", "U+DC74">>, <<"U+D835", "U+DC75">>,
     <<"U+D835", "U+DC76">>, <<"U+D835", "U+DC77">>, <<"U+D835", "U+DC78">>,
     <<"U+D835", "U+DC79">>, <<"U+D835", "U+DC7A">>, <<"U+D835", "U+DC7B">>,
     <<"U+D835", "U+DC7C">>, <<"U+D835", "U+DC7D">>, <<"U+D835", "U+DC7E">>,
     <<"U+D835", "U+DC7F">>, <<"U+D835", "U+DC80">>, <<"U+D835", "U+DC81">>,
     <<"U+D835", "U+DC82">>, <<"U+D835", "U+DC83">>, <<"U+D835", "U+DC84">>,
     <<"U+D835", "U+DC85">>, <<"U+D835", "U+DC86">>, <<"U+D835", "U+DC87">>,
     <<"U+D835", "U+DC88">>, <<"U+D835", "U+DC89">>, <<"U+D835", "U+DC8A">>,
     <<"U+D835", "U+DC8B">>, <<"U+D835", "U+DC8C">>, <<"U+D835", "U+DC8D">>,
     <<"U+D835", "U+DC8E">>, <<"U+D835", "U+DC8F">>, <<"U+D835", "U+DC90">>,
     <<"U+D835", "U+DC91">>, <<"U+D835", "U+DC92">>, <<"U+D835", "U+DC93">>,
     <<"U+D835", "U+DC94">>, <<"U+D835", "U+DC95">>, <<"U+D835", "U+DC96">>,
     <<"U+D835", "U+DC97">>, <<"U+D835", "U+DC98">>, <<"U+D835", "U+DC99">>,
     <<"U+D835", "U+DC9A">>, <<"U+D835", "U+DC9B">>, <<"U+D835", "U+DC9C">>,
     <<"U+D835", "U+DC9E">>, <<"U+D835", "U+DC9F">>, <<"U+D835", "U+DCA2">>,
     <<"U+D835", "U+DCA5">>, <<"U+D835", "U+DCA6">>, <<"U+D835", "U+DCA9">>,
     <<"U+D835", "U+DCAA">>, <<"U+D835", "U+DCAB">>, <<"U+D835", "U+DCAC">>,
     <<"U+D835", "U+DCAE">>, <<"U+D835", "U+DCAF">>, <<"U+D835", "U+DCB0">>,
     <<"U+D835", "U+DCB1">>, <<"U+D835", "U+DCB2">>, <<"U+D835", "U+DCB3">>,
     <<"U+D835", "U+DCB4">>, <<"U+D835", "U+DCB5">>, <<"U+D835", "U+DCB6">>,
     <<"U+D835", "U+DCB7">>, <<"U+D835", "U+DCB8">>, <<"U+D835", "U+DCB9">>,
     <<"U+D835", "U+DCBB">>, <<"U+D835", "U+DCBD">>, <<"U+D835", "U+DCBE">>,
     <<"U+D835", "U+DCBF">>, <<"U+D835", "U+DCC0">>, <<"U+D835", "U+DCC1">>,
     <<"U+D835", "U+DCC2">>, <<"U+D835", "U+DCC3">>, <<"U+D835", "U+DCC5">>,
     <<"U+D835", "U+DCC6">>, <<"U+D835", "U+DCC7">>, <<"U+D835", "U+DCC8">>,
     <<"U+D835", "U+DCC9">>, <<"U+D835", "U+DCCA">>, <<"U+D835", "U+DCCB">>,
     <<"U+D835", "U+DCCC">>, <<"U+D835", "U+DCCD">>, <<"U+D835", "U+DCCE">>,
     <<"U+D835", "U+DCCF">>, <<"U+D835", "U+DCD0">>, <<"U+D835", "U+DCD1">>,
     <<"U+D835", "U+DCD2">>, <<"U+D835", "U+DCD3">>, <<"U+D835", "U+DCD4">>,
     <<"U+D835", "U+DCD5">>, <<"U+D835", "U+DCD6">>, <<"U+D835", "U+DCD7">>,
     <<"U+D835", "U+DCD8">>, <<"U+D835", "U+DCD9">>, <<"U+D835", "U+DCDA">>,
     <<"U+D835", "U+DCDB">>, <<"U+D835", "U+DCDC">>, <<"U+D835", "U+DCDD">>,
     <<"U+D835", "U+DCDE">>, <<"U+D835", "U+DCDF">>, <<"U+D835", "U+DCE0">>,
     <<"U+D835", "U+DCE1">>, <<"U+D835", "U+DCE2">>, <<"U+D835", "U+DCE3">>,
     <<"U+D835", "U+DCE4">>, <<"U+D835", "U+DCE5">>, <<"U+D835", "U+DCE6">>,
     <<"U+D835", "U+DCE7">>, <<"U+D835", "U+DCE8">>, <<"U+D835", "U+DCE9">>,
     <<"U+D835", "U+DCEA">>, <<"U+D835", "U+DCEB">>, <<"U+D835", "U+DCEC">>,
     <<"U+D835", "U+DCED">>, <<"U+D835", "U+DCEE">>, <<"U+D835", "U+DCEF">>,
     <<"U+D835", "U+DCF0">>, <<"U+D835", "U+DCF1">>, <<"U+D835", "U+DCF2">>,
     <<"U+D835", "U+DCF3">>, <<"U+D835", "U+DCF4">>, <<"U+D835", "U+DCF5">>,
     <<"U+D835", "U+DCF6">>, <<"U+D835", "U+DCF7">>, <<"U+D835", "U+DCF8">>,
     <<"U+D835", "U+DCF9">>, <<"U+D835", "U+DCFA">>, <<"U+D835", "U+DCFB">>,
     <<"U+D835", "U+DCFC">>, <<"U+D835", "U+DCFD">>, <<"U+D835", "U+DCFE">>,
     <<"U+D835", "U+DCFF">>, <<"U+D835", "U+DD00">>, <<"U+D835", "U+DD01">>,
     <<"U+D835", "U+DD02">>, <<"U+D835", "U+DD03">>, <<"U+D835", "U+DD04">>,
     <<"U+D835", "U+DD05">>, <<"U+D835", "U+DD07">>, <<"U+D835", "U+DD08">>,
     <<"U+D835", "U+DD09">>, <<"U+D835", "U+DD0A">>, <<"U+D835", "U+DD0D">>,
     <<"U+D835", "U+DD0E">>, <<"U+D835", "U+DD0F">>, <<"U+D835", "U+DD10">>,
     <<"U+D835", "U+DD11">>, <<"U+D835", "U+DD12">>, <<"U+D835", "U+DD13">>,
     <<"U+D835", "U+DD14">>, <<"U+D835", "U+DD16">>, <<"U+D835", "U+DD17">>,
     <<"U+D835", "U+DD18">>, <<"U+D835", "U+DD19">>, <<"U+D835", "U+DD1A">>,
     <<"U+D835", "U+DD1B">>, <<"U+D835", "U+DD1C">>, <<"U+D835", "U+DD1E">>,
     <<"U+D835", "U+DD1F">>, <<"U+D835", "U+DD20">>, <<"U+D835", "U+DD21">>,
     <<"U+D835", "U+DD22">>, <<"U+D835", "U+DD23">>, <<"U+D835", "U+DD24">>,
     <<"U+D835", "U+DD25">>, <<"U+D835", "U+DD26">>, <<"U+D835", "U+DD27">>,
     <<"U+D835", "U+DD28">>, <<"U+D835", "U+DD29">>, <<"U+D835", "U+DD2A">>,
     <<"U+D835", "U+DD2B">>, <<"U+D835", "U+DD2C">>, <<"U+D835", "U+DD2D">>,
     <<"U+D835", "U+DD2E">>, <<"U+D835", "U+DD2F">>, <<"U+D835", "U+DD30">>,
     <<"U+D835", "U+DD31">>, <<"U+D835", "U+DD32">>, <<"U+D835", "U+DD33">>,
     <<"U+D835", "U+DD34">>, <<"U+D835", "U+DD35">>, <<"U+D835", "U+DD36">>,
     <<"U+D835", "U+DD37">>, <<"U+D835", "U+DD38">>, <<"U+D835", "U+DD39">>,
     <<"U+D835", "U+DD3B">>, <<"U+D835", "U+DD3C">>, <<"U+D835", "U+DD3D">>,
     <<"U+D835", "U+DD3E">>, <<"U+D835", "U+DD40">>, <<"U+D835", "U+DD41">>,
     <<"U+D835", "U+DD42">>, <<"U+D835", "U+DD43">>, <<"U+D835", "U+DD44">>,
     <<"U+D835", "U+DD46">>, <<"U+D835", "U+DD4A">>, <<"U+D835", "U+DD4B">>,
     <<"U+D835", "U+DD4C">>, <<"U+D835", "U+DD4D">>, <<"U+D835", "U+DD4E">>,
     <<"U+D835", "U+DD4F">>, <<"U+D835", "U+DD50">>, <<"U+D835", "U+DD52">>,
     <<"U+D835", "U+DD53">>, <<"U+D835", "U+DD54">>, <<"U+D835", "U+DD55">>,
     <<"U+D835", "U+DD56">>, <<"U+D835", "U+DD57">>, <<"U+D835", "U+DD58">>,
     <<"U+D835", "U+DD59">>, <<"U+D835", "U+DD5A">>, <<"U+D835", "U+DD5B">>,
     <<"U+D835", "U+DD5C">>, <<"U+D835", "U+DD5D">>, <<"U+D835", "U+DD5E">>,
     <<"U+D835", "U+DD5F">>, <<"U+D835", "U+DD60">>, <<"U+D835", "U+DD61">>,
     <<"U+D835", "U+DD62">>, <<"U+D835", "U+DD63">>, <<"U+D835", "U+DD64">>,
     <<"U+D835", "U+DD65">>, <<"U+D835", "U+DD66">>, <<"U+D835", "U+DD67">>,
     <<"U+D835", "U+DD68">>, <<"U+D835", "U+DD69">>, <<"U+D835", "U+DD6A">>,
     <<"U+D835", "U+DD6B">>, <<"U+D835", "U+DD6C">>, <<"U+D835", "U+DD6D">>,
     <<"U+D835", "U+DD6E">>, <<"U+D835", "U+DD6F">>, <<"U+D835", "U+DD70">>,
     <<"U+D835", "U+DD71">>, <<"U+D835", "U+DD72">>, <<"U+D835", "U+DD73">>,
     <<"U+D835", "U+DD74">>, <<"U+D835", "U+DD75">>, <<"U+D835", "U+DD76">>,
     <<"U+D835", "U+DD77">>, <<"U+D835", "U+DD78">>, <<"U+D835", "U+DD79">>,
     <<"U+D835", "U+DD7A">>, <<"U+D835", "U+DD7B">>, <<"U+D835", "U+DD7C">>,
     <<"U+D835", "U+DD7D">>, <<"U+D835", "U+DD7E">>, <<"U+D835", "U+DD7F">>,
     <<"U+D835", "U+DD80">>, <<"U+D835", "U+DD81">>, <<"U+D835", "U+DD82">>,
     <<"U+D835", "U+DD83">>, <<"U+D835", "U+DD84">>, <<"U+D835", "U+DD85">>,
     <<"U+D835", "U+DD86">>, <<"U+D835", "U+DD87">>, <<"U+D835", "U+DD88">>,
     <<"U+D835", "U+DD89">>, <<"U+D835", "U+DD8A">>, <<"U+D835", "U+DD8B">>,
     <<"U+D835", "U+DD8C">>, <<"U+D835", "U+DD8D">>, <<"U+D835", "U+DD8E">>,
     <<"U+D835", "U+DD8F">>, <<"U+D835", "U+DD90">>, <<"U+D835", "U+DD91">>,
     <<"U+D835", "U+DD92">>, <<"U+D835", "U+DD93">>, <<"U+D835", "U+DD94">>,
     <<"U+D835", "U+DD95">>, <<"U+D835", "U+DD96">>, <<"U+D835", "U+DD97">>,
     <<"U+D835", "U+DD98">>, <<"U+D835", "U+DD99">>, <<"U+D835", "U+DD9A">>,
     <<"U+D835", "U+DD9B">>, <<"U+D835", "U+DD9C">>, <<"U+D835", "U+DD9D">>,
     <<"U+D835", "U+DD9E">>, <<"U+D835", "U+DD9F">>, <<"U+D835", "U+DDA0">>,
     <<"U+D835", "U+DDA1">>, <<"U+D835", "U+DDA2">>, <<"U+D835", "U+DDA3">>,
     <<"U+D835", "U+DDA4">>, <<"U+D835", "U+DDA5">>, <<"U+D835", "U+DDA6">>,
     <<"U+D835", "U+DDA7">>, <<"U+D835", "U+DDA8">>, <<"U+D835", "U+DDA9">>,
     <<"U+D835", "U+DDAA">>, <<"U+D835", "U+DDAB">>, <<"U+D835", "U+DDAC">>,
     <<"U+D835", "U+DDAD">>, <<"U+D835", "U+DDAE">>, <<"U+D835", "U+DDAF">>,
     <<"U+D835", "U+DDB0">>, <<"U+D835", "U+DDB1">>, <<"U+D835", "U+DDB2">>,
     <<"U+D835", "U+DDB3">>, <<"U+D835", "U+DDB4">>, <<"U+D835", "U+DDB5">>,
     <<"U+D835", "U+DDB6">>, <<"U+D835", "U+DDB7">>, <<"U+D835", "U+DDB8">>,
     <<"U+D835", "U+DDB9">>, <<"U+D835", "U+DDBA">>, <<"U+D835", "U+DDBB">>,
     <<"U+D835", "U+DDBC">>, <<"U+D835", "U+DDBD">>, <<"U+D835", "U+DDBE">>,
     <<"U+D835", "U+DDBF">>, <<"U+D835", "U+DDC0">>, <<"U+D835", "U+DDC1">>,
     <<"U+D835", "U+DDC2">>, <<"U+D835", "U+DDC3">>, <<"U+D835", "U+DDC4">>,
     <<"U+D835", "U+DDC5">>, <<"U+D835", "U+DDC6">>, <<"U+D835", "U+DDC7">>,
     <<"U+D835", "U+DDC8">>, <<"U+D835", "U+DDC9">>, <<"U+D835", "U+DDCA">>,
     <<"U+D835", "U+DDCB">>, <<"U+D835", "U+DDCC">>, <<"U+D835", "U+DDCD">>,
     <<"U+D835", "U+DDCE">>, <<"U+D835", "U+DDCF">>, <<"U+D835", "U+DDD0">>,
     <<"U+D835", "U+DDD1">>, <<"U+D835", "U+DDD2">>, <<"U+D835", "U+DDD3">>,
     <<"U+D835", "U+DDD4">>, <<"U+D835", "U+DDD5">>, <<"U+D835", "U+DDD6">>,
     <<"U+D835", "U+DDD7">>, <<"U+D835", "U+DDD8">>, <<"U+D835", "U+DDD9">>,
     <<"U+D835", "U+DDDA">>, <<"U+D835", "U+DDDB">>, <<"U+D835", "U+DDDC">>,
     <<"U+D835", "U+DDDD">>, <<"U+D835", "U+DDDE">>, <<"U+D835", "U+DDDF">>,
     <<"U+D835", "U+DDE0">>, <<"U+D835", "U+DDE1">>, <<"U+D835", "U+DDE2">>,
     <<"U+D835", "U+DDE3">>, <<"U+D835", "U+DDE4">>, <<"U+D835", "U+DDE5">>,
     <<"U+D835", "U+DDE6">>, <<"U+D835", "U+DDE7">>, <<"U+D835", "U+DDE8">>,
     <<"U+D835", "U+DDE9">>, <<"U+D835", "U+DDEA">>, <<"U+D835", "U+DDEB">>,
     <<"U+D835", "U+DDEC">>, <<"U+D835", "U+DDED">>, <<"U+D835", "U+DDEE">>,
     <<"U+D835", "U+DDEF">>, <<"U+D835", "U+DDF0">>, <<"U+D835", "U+DDF1">>,
     <<"U+D835", "U+DDF2">>, <<"U+D835", "U+DDF3">>, <<"U+D835", "U+DDF4">>,
     <<"U+D835", "U+DDF5">>, <<"U+D835", "U+DDF6">>, <<"U+D835", "U+DDF7">>,
     <<"U+D835", "U+DDF8">>, <<"U+D835", "U+DDF9">>, <<"U+D835", "U+DDFA">>,
     <<"U+D835", "U+DDFB">>, <<"U+D835", "U+DDFC">>, <<"U+D835", "U+DDFD">>,
     <<"U+D835", "U+DDFE">>, <<"U+D835", "U+DDFF">>, <<"U+D835", "U+DE00">>,
     <<"U+D835", "U+DE01">>, <<"U+D835", "U+DE02">>, <<"U+D835", "U+DE03">>,
     <<"U+D835", "U+DE04">>, <<"U+D835", "U+DE05">>, <<"U+D835", "U+DE06">>,
     <<"U+D835", "U+DE07">>, <<"U+D835", "U+DE08">>, <<"U+D835", "U+DE09">>,
     <<"U+D835", "U+DE0A">>, <<"U+D835", "U+DE0B">>, <<"U+D835", "U+DE0C">>,
     <<"U+D835", "U+DE0D">>, <<"U+D835", "U+DE0E">>, <<"U+D835", "U+DE0F">>,
     <<"U+D835", "U+DE10">>, <<"U+D835", "U+DE11">>, <<"U+D835", "U+DE12">>,
     <<"U+D835", "U+DE13">>, <<"U+D835", "U+DE14">>, <<"U+D835", "U+DE15">>,
     <<"U+D835", "U+DE16">>, <<"U+D835", "U+DE17">>, <<"U+D835", "U+DE18">>,
     <<"U+D835", "U+DE19">>, <<"U+D835", "U+DE1A">>, <<"U+D835", "U+DE1B">>,
     <<"U+D835", "U+DE1C">>, <<"U+D835", "U+DE1D">>, <<"U+D835", "U+DE1E">>,
     <<"U+D835", "U+DE1F">>, <<"U+D835", "U+DE20">>, <<"U+D835", "U+DE21">>,
     <<"U+D835", "U+DE22">>, <<"U+D835", "U+DE23">>, <<"U+D835", "U+DE24">>,
     <<"U+D835", "U+DE25">>, <<"U+D835", "U+DE26">>, <<"U+D835", "U+DE27">>,
     <<"U+D835", "U+DE28">>, <<"U+D835", "U+DE29">>, <<"U+D835", "U+DE2A">>,
     <<"U+D835", "U+DE2B">>, <<"U+D835", "U+DE2C">>, <<"U+D835", "U+DE2D">>,
     <<"U+D835", "U+DE2E">>, <<"U+D835", "U+DE2F">>, <<"U+D835", "U+DE30">>,
     <<"U+D835", "U+DE31">>, <<"U+D835", "U+DE32">>, <<"U+D835", "U+DE33">>,
     <<"U+D835", "U+DE34">>, <<"U+D835", "U+DE35">>, <<"U+D835", "U+DE36">>,
     <<"U+D835", "U+DE37">>, <<"U+D835", "U+DE38">>, <<"U+D835", "U+DE39">>,
     <<"U+D835", "U+DE3A">>, <<"U+D835", "U+DE3B">>, <<"U+D835", "U+DE3C">>,
     <<"U+D835", "U+DE3D">>, <<"U+D835", "U+DE3E">>, <<"U+D835", "U+DE3F">>,
     <<"U+D835", "U+DE40">>, <<"U+D835", "U+DE41">>, <<"U+D835", "U+DE42">>,
     <<"U+D835", "U+DE43">>, <<"U+D835", "U+DE44">>, <<"U+D835", "U+DE45">>,
     <<"U+D835", "U+DE46">>, <<"U+D835", "U+DE47">>, <<"U+D835", "U+DE48">>,
     <<"U+D835", "U+DE49">>, <<"U+D835", "U+DE4A">>, <<"U+D835", "U+DE4B">>,
     <<"U+D835", "U+DE4C">>, <<"U+D835", "U+DE4D">>, <<"U+D835", "U+DE4E">>,
     <<"U+D835", "U+DE4F">>, <<"U+D835", "U+DE50">>, <<"U+D835", "U+DE51">>,
     <<"U+D835", "U+DE52">>, <<"U+D835", "U+DE53">>, <<"U+D835", "U+DE54">>,
     <<"U+D835", "U+DE55">>, <<"U+D835", "U+DE56">>, <<"U+D835", "U+DE57">>,
     <<"U+D835", "U+DE58">>, <<"U+D835", "U+DE59">>, <<"U+D835", "U+DE5A">>,
     <<"U+D835", "U+DE5B">>, <<"U+D835", "U+DE5C">>, <<"U+D835", "U+DE5D">>,
     <<"U+D835", "U+DE5E">>, <<"U+D835", "U+DE5F">>, <<"U+D835", "U+DE60">>,
     <<"U+D835", "U+DE61">>, <<"U+D835", "U+DE62">>, <<"U+D835", "U+DE63">>,
     <<"U+D835", "U+DE64">>, <<"U+D835", "U+DE65">>, <<"U+D835", "U+DE66">>,
     <<"U+D835", "U+DE67">>, <<"U+D835", "U+DE68">>, <<"U+D835", "U+DE69">>,
     <<"U+D835", "U+DE6A">>, <<"U+D835", "U+DE6B">>, <<"U+D835", "U+DE6C">>,
     <<"U+D835", "U+DE6D">>, <<"U+D835", "U+DE6E">>, <<"U+D835", "U+DE6F">>,
     <<"U+D835", "U+DE70">>, <<"U+D835", "U+DE71">>, <<"U+D835", "U+DE72">>,
     <<"U+D835", "U+DE73">>, <<"U+D835", "U+DE74">>, <<"U+D835", "U+DE75">>,
     <<"U+D835", "U+DE76">>, <<"U+D835", "U+DE77">>, <<"U+D835", "U+DE78">>,
     <<"U+D835", "U+DE79">>, <<"U+D835", "U+DE7A">>, <<"U+D835", "U+DE7B">>,
     <<"U+D835", "U+DE7C">>, <<"U+D835", "U+DE7D">>, <<"U+D835", "U+DE7E">>,
     <<"U+D835", "U+DE7F">>, <<"U+D835", "U+DE80">>, <<"U+D835", "U+DE81">>,
     <<"U+D835", "U+DE82">>, <<"U+D835", "U+DE83">>, <<"U+D835", "U+DE84">>,
     <<"U+D835", "U+DE85">>, <<"U+D835", "U+DE86">>, <<"U+D835", "U+DE87">>,
     <<"U+D835", "U+DE88">>, <<"U+D835", "U+DE89">>, <<"U+D835", "U+DE8A">>,
     <<"U+D835", "U+DE8B">>, <<"U+D835", "U+DE8C">>, <<"U+D835", "U+DE8D">>,
     <<"U+D835", "U+DE8E">>, <<"U+D835", "U+DE8F">>, <<"U+D835", "U+DE90">>,
     <<"U+D835", "U+DE91">>, <<"U+D835", "U+DE92">>, <<"U+D835", "U+DE93">>,
     <<"U+D835", "U+DE94">>, <<"U+D835", "U+DE95">>, <<"U+D835", "U+DE96">>,
     <<"U+D835", "U+DE97">>, <<"U+D835", "U+DE98">>, <<"U+D835", "U+DE99">>,
     <<"U+D835", "U+DE9A">>, <<"U+D835", "U+DE9B">>, <<"U+D835", "U+DE9C">>,
     <<"U+D835", "U+DE9D">>, <<"U+D835", "U+DE9E">>, <<"U+D835", "U+DE9F">>,
     <<"U+D835", "U+DEA0">>, <<"U+D835", "U+DEA1">>, <<"U+D835", "U+DEA2">>,
     <<"U+D835", "U+DEA3">>, <<"U+D835", "U+DEA4">>, <<"U+D835", "U+DEA5">>,
     <<"U+D835", "U+DEA8">>, <<"U+D835", "U+DEA9">>, <<"U+D835", "U+DEAA">>,
     <<"U+D835", "U+DEAB">>, <<"U+D835", "U+DEAC">>, <<"U+D835", "U+DEAD">>,
     <<"U+D835", "U+DEAE">>, <<"U+D835", "U+DEAF">>, <<"U+D835", "U+DEB0">>,
     <<"U+D835", "U+DEB1">>, <<"U+D835", "U+DEB2">>, <<"U+D835", "U+DEB3">>,
     <<"U+D835", "U+DEB4">>, <<"U+D835", "U+DEB5">>, <<"U+D835", "U+DEB6">>,
     <<"U+D835", "U+DEB7">>, <<"U+D835", "U+DEB8">>, <<"U+D835", "U+DEB9">>,
     <<"U+D835", "U+DEBA">>, <<"U+D835", "U+DEBB">>, <<"U+D835", "U+DEBC">>,
     <<"U+D835", "U+DEBD">>, <<"U+D835", "U+DEBE">>, <<"U+D835", "U+DEBF">>,
     <<"U+D835", "U+DEC0">>, <<"U+D835", "U+DEC2">>, <<"U+D835", "U+DEC3">>,
     <<"U+D835", "U+DEC4">>, <<"U+D835", "U+DEC5">>, <<"U+D835", "U+DEC6">>,
     <<"U+D835", "U+DEC7">>, <<"U+D835", "U+DEC8">>, <<"U+D835", "U+DEC9">>,
     <<"U+D835", "U+DECA">>, <<"U+D835", "U+DECB">>, <<"U+D835", "U+DECC">>,
     <<"U+D835", "U+DECD">>, <<"U+D835", "U+DECE">>, <<"U+D835", "U+DECF">>,
     <<"U+D835", "U+DED0">>, <<"U+D835", "U+DED1">>, <<"U+D835", "U+DED2">>,
     <<"U+D835", "U+DED3">>, <<"U+D835", "U+DED4">>, <<"U+D835", "U+DED5">>,
     <<"U+D835", "U+DED6">>, <<"U+D835", "U+DED7">>, <<"U+D835", "U+DED8">>,
     <<"U+D835", "U+DED9">>, <<"U+D835", "U+DEDA">>, <<"U+D835", "U+DEDC">>,
     <<"U+D835", "U+DEDD">>, <<"U+D835", "U+DEDE">>, <<"U+D835", "U+DEDF">>,
     <<"U+D835", "U+DEE0">>, <<"U+D835", "U+DEE1">>, <<"U+D835", "U+DEE2">>,
     <<"U+D835", "U+DEE3">>, <<"U+D835", "U+DEE4">>, <<"U+D835", "U+DEE5">>,
     <<"U+D835", "U+DEE6">>, <<"U+D835", "U+DEE7">>, <<"U+D835", "U+DEE8">>,
     <<"U+D835", "U+DEE9">>, <<"U+D835", "U+DEEA">>, <<"U+D835", "U+DEEB">>,
     <<"U+D835", "U+DEEC">>, <<"U+D835", "U+DEED">>, <<"U+D835", "U+DEEE">>,
     <<"U+D835", "U+DEEF">>, <<"U+D835", "U+DEF0">>, <<"U+D835", "U+DEF1">>,
     <<"U+D835", "U+DEF2">>, <<"U+D835", "U+DEF3">>, <<"U+D835", "U+DEF4">>,
     <<"U+D835", "U+DEF5">>, <<"U+D835", "U+DEF6">>, <<"U+D835", "U+DEF7">>,
     <<"U+D835", "U+DEF8">>, <<"U+D835", "U+DEF9">>, <<"U+D835", "U+DEFA">>,
     <<"U+D835", "U+DEFC">>, <<"U+D835", "U+DEFD">>, <<"U+D835", "U+DEFE">>,
     <<"U+D835", "U+DEFF">>, <<"U+D835", "U+DF00">>, <<"U+D835", "U+DF01">>,
     <<"U+D835", "U+DF02">>, <<"U+D835", "U+DF03">>, <<"U+D835", "U+DF04">>,
     <<"U+D835", "U+DF05">>, <<"U+D835", "U+DF06">>, <<"U+D835", "U+DF07">>,
     <<"U+D835", "U+DF08">>, <<"U+D835", "U+DF09">>, <<"U+D835", "U+DF0A">>,
     <<"U+D835", "U+DF0B">>, <<"U+D835", "U+DF0C">>, <<"U+D835", "U+DF0D">>,
     <<"U+D835", "U+DF0E">>, <<"U+D835", "U+DF0F">>, <<"U+D835", "U+DF10">>,
     <<"U+D835", "U+DF11">>, <<"U+D835", "U+DF12">>, <<"U+D835", "U+DF13">>,
     <<"U+D835", "U+DF14">>, <<"U+D835", "U+DF16">>, <<"U+D835", "U+DF17">>,
     <<"U+D835", "U+DF18">>, <<"U+D835", "U+DF19">>, <<"U+D835", "U+DF1A">>,
     <<"U+D835", "U+DF1B">>, <<"U+D835", "U+DF1C">>, <<"U+D835", "U+DF1D">>,
     <<"U+D835", "U+DF1E">>, <<"U+D835", "U+DF1F">>, <<"U+D835", "U+DF20">>,
     <<"U+D835", "U+DF21">>, <<"U+D835", "U+DF22">>, <<"U+D835", "U+DF23">>,
     <<"U+D835", "U+DF24">>, <<"U+D835", "U+DF25">>, <<"U+D835", "U+DF26">>,
     <<"U+D835", "U+DF27">>, <<"U+D835", "U+DF28">>, <<"U+D835", "U+DF29">>,
     <<"U+D835", "U+DF2A">>, <<"U+D835", "U+DF2B">>, <<"U+D835", "U+DF2C">>,
     <<"U+D835", "U+DF2D">>, <<"U+D835", "U+DF2E">>, <<"U+D835", "U+DF2F">>,
     <<"U+D835", "U+DF30">>, <<"U+D835", "U+DF31">>, <<"U+D835", "U+DF32">>,
     <<"U+D835", "U+DF33">>, <<"U+D835", "U+DF34">>, <<"U+D835", "U+DF36">>,
     <<"U+D835", "U+DF37">>, <<"U+D835", "U+DF38">>, <<"U+D835", "U+DF39">>,
     <<"U+D835", "U+DF3A">>, <<"U+D835", "U+DF3B">>, <<"U+D835", "U+DF3C">>,
     <<"U+D835", "U+DF3D">>, <<"U+D835", "U+DF3E">>, <<"U+D835", "U+DF3F">>,
     <<"U+D835", "U+DF40">>, <<"U+D835", "U+DF41">>, <<"U+D835", "U+DF42">>,
     <<"U+D835", "U+DF43">>, <<"U+D835", "U+DF44">>, <<"U+D835", "U+DF45">>,
     <<"U+D835", "U+DF46">>, <<"U+D835", "U+DF47">>, <<"U+D835", "U+DF48">>,
     <<"U+D835", "U+DF49">>, <<"U+D835", "U+DF4A">>, <<"U+D835", "U+DF4B">>,
     <<"U+D835", "U+DF4C">>, <<"U+D835", "U+DF4D">>, <<"U+D835", "U+DF4E">>,
     <<"U+D835", "U+DF50">>, <<"U+D835", "U+DF51">>, <<"U+D835", "U+DF52">>,
     <<"U+D835", "U+DF53">>, <<"U+D835", "U+DF54">>, <<"U+D835", "U+DF55">>,
     <<"U+D835", "U+DF56">>, <<"U+D835", "U+DF57">>, <<"U+D835", "U+DF58">>,
     <<"U+D835", "U+DF59">>, <<"U+D835", "U+DF5A">>, <<"U+D835", "U+DF5B">>,
     <<"U+D835", "U+DF5C">>, <<"U+D835", "U+DF5D">>, <<"U+D835", "U+DF5E">>,
     <<"U+D835", "U+DF5F">>, <<"U+D835", "U+DF60">>, <<"U+D835", "U+DF61">>,
     <<"U+D835", "U+DF62">>, <<"U+D835", "U+DF63">>, <<"U+D835", "U+DF64">>,
     <<"U+D835", "U+DF65">>, <<"U+D835", "U+DF66">>, <<"U+D835", "U+DF67">>,
     <<"U+D835", "U+DF68">>, <<"U+D835", "U+DF69">>, <<"U+D835", "U+DF6A">>,
     <<"U+D835", "U+DF6B">>, <<"U+D835", "U+DF6C">>, <<"U+D835", "U+DF6D">>,
     <<"U+D835", "U+DF6E">>, <<"U+D835", "U+DF70">>, <<"U+D835", "U+DF71">>,
     <<"U+D835", "U+DF72">>, <<"U+D835", "U+DF73">>, <<"U+D835", "U+DF74">>,
     <<"U+D835", "U+DF75">>, <<"U+D835", "U+DF76">>, <<"U+D835", "U+DF77">>,
     <<"U+D835", "U+DF78">>, <<"U+D835", "U+DF79">>, <<"U+D835", "U+DF7A">>,
     <<"U+D835", "U+DF7B">>, <<"U+D835", "U+DF7C">>, <<"U+D835", "U+DF7D">>,
     <<"U+D835", "U+DF7E">>, <<"U+D835", "U+DF7F">>, <<"U+D835", "U+DF80">>,
     <<"U+D835", "U+DF81">>, <<"U+D835", "U+DF82">>, <<"U+D835", "U+DF83">>,
     <<"U+D835", "U+DF84">>, <<"U+D835", "U+DF85">>, <<"U+D835", "U+DF86">>,
     <<"U+D835", "U+DF87">>, <<"U+D835", "U+DF88">>, <<"U+D835", "U+DF8A">>,
     <<"U+D835", "U+DF8B">>, <<"U+D835", "U+DF8C">>, <<"U+D835", "U+DF8D">>,
     <<"U+D835", "U+DF8E">>, <<"U+D835", "U+DF8F">>, <<"U+D835", "U+DF90">>,
     <<"U+D835", "U+DF91">>, <<"U+D835", "U+DF92">>, <<"U+D835", "U+DF93">>,
     <<"U+D835", "U+DF94">>, <<"U+D835", "U+DF95">>, <<"U+D835", "U+DF96">>,
     <<"U+D835", "U+DF97">>, <<"U+D835", "U+DF98">>, <<"U+D835", "U+DF99">>,
     <<"U+D835", "U+DF9A">>, <<"U+D835", "U+DF9B">>, <<"U+D835", "U+DF9C">>,
     <<"U+D835", "U+DF9D">>, <<"U+D835", "U+DF9E">>, <<"U+D835", "U+DF9F">>,
     <<"U+D835", "U+DFA0">>, <<"U+D835", "U+DFA1">>, <<"U+D835", "U+DFA2">>,
     <<"U+D835", "U+DFA3">>, <<"U+D835", "U+DFA4">>, <<"U+D835", "U+DFA5">>,
     <<"U+D835", "U+DFA6">>, <<"U+D835", "U+DFA7">>, <<"U+D835", "U+DFA8">>,
     <<"U+D835", "U+DFAA">>, <<"U+D835", "U+DFAB">>, <<"U+D835", "U+DFAC">>,
     <<"U+D835", "U+DFAD">>, <<"U+D835", "U+DFAE">>, <<"U+D835", "U+DFAF">>,
     <<"U+D835", "U+DFB0">>, <<"U+D835", "U+DFB1">>, <<"U+D835", "U+DFB2">>,
     <<"U+D835", "U+DFB3">>, <<"U+D835", "U+DFB4">>, <<"U+D835", "U+DFB5">>,
     <<"U+D835", "U+DFB6">>, <<"U+D835", "U+DFB7">>, <<"U+D835", "U+DFB8">>,
     <<"U+D835", "U+DFB9">>, <<"U+D835", "U+DFBA">>, <<"U+D835", "U+DFBB">>,
     <<"U+D835", "U+DFBC">>, <<"U+D835", "U+DFBD">>, <<"U+D835", "U+DFBE">>,
     <<"U+D835", "U+DFBF">>, <<"U+D835", "U+DFC0">>, <<"U+D835", "U+DFC1">>,
     <<"U+D835", "U+DFC2">>, <<"U+D835", "U+DFC4">>, <<"U+D835", "U+DFC5">>,
     <<"U+D835", "U+DFC6">>, <<"U+D835", "U+DFC7">>, <<"U+D835", "U+DFC8">>,
     <<"U+D835", "U+DFC9">>, <<"U+D835", "U+DFCA">>, <<"U+D835", "U+DFCB">>,
     <<"U+D837", "U+DF00">>, <<"U+D837", "U+DF01">>, <<"U+D837", "U+DF02">>,
     <<"U+D837", "U+DF03">>, <<"U+D837", "U+DF04">>, <<"U+D837", "U+DF05">>,
     <<"U+D837", "U+DF06">>, <<"U+D837", "U+DF07">>, <<"U+D837", "U+DF08">>,
     <<"U+D837", "U+DF09">>, <<"U+D837", "U+DF0B">>, <<"U+D837", "U+DF0C">>,
     <<"U+D837", "U+DF0D">>, <<"U+D837", "U+DF0E">>, <<"U+D837", "U+DF0F">>,
     <<"U+D837", "U+DF10">>, <<"U+D837", "U+DF11">>, <<"U+D837", "U+DF12">>,
     <<"U+D837", "U+DF13">>, <<"U+D837", "U+DF14">>, <<"U+D837", "U+DF15">>,
     <<"U+D837", "U+DF16">>, <<"U+D837", "U+DF17">>, <<"U+D837", "U+DF18">>,
     <<"U+D837", "U+DF19">>, <<"U+D837", "U+DF1A">>, <<"U+D837", "U+DF1B">>,
     <<"U+D837", "U+DF1C">>, <<"U+D837", "U+DF1D">>, <<"U+D837", "U+DF1E">>,
     <<"U+D837", "U+DF25">>, <<"U+D837", "U+DF26">>, <<"U+D837", "U+DF27">>,
     <<"U+D837", "U+DF28">>, <<"U+D837", "U+DF29">>, <<"U+D837", "U+DF2A">>,
     <<"U+D83A", "U+DD00">>, <<"U+D83A", "U+DD01">>, <<"U+D83A", "U+DD02">>,
     <<"U+D83A", "U+DD03">>, <<"U+D83A", "U+DD04">>, <<"U+D83A", "U+DD05">>,
     <<"U+D83A", "U+DD06">>, <<"U+D83A", "U+DD07">>, <<"U+D83A", "U+DD08">>,
     <<"U+D83A", "U+DD09">>, <<"U+D83A", "U+DD0A">>, <<"U+D83A", "U+DD0B">>,
     <<"U+D83A", "U+DD0C">>, <<"U+D83A", "U+DD0D">>, <<"U+D83A", "U+DD0E">>,
     <<"U+D83A", "U+DD0F">>, <<"U+D83A", "U+DD10">>, <<"U+D83A", "U+DD11">>,
     <<"U+D83A", "U+DD12">>, <<"U+D83A", "U+DD13">>, <<"U+D83A", "U+DD14">>,
     <<"U+D83A", "U+DD15">>, <<"U+D83A", "U+DD16">>, <<"U+D83A", "U+DD17">>,
     <<"U+D83A", "U+DD18">>, <<"U+D83A", "U+DD19">>, <<"U+D83A", "U+DD1A">>,
     <<"U+D83A", "U+DD1B">>, <<"U+D83A", "U+DD1C">>, <<"U+D83A", "U+DD1D">>,
     <<"U+D83A", "U+DD1E">>, <<"U+D83A", "U+DD1F">>, <<"U+D83A", "U+DD20">>,
     <<"U+D83A", "U+DD21">>, <<"U+D83A", "U+DD22">>, <<"U+D83A", "U+DD23">>,
     <<"U+D83A", "U+DD24">>, <<"U+D83A", "U+DD25">>, <<"U+D83A", "U+DD26">>,
     <<"U+D83A", "U+DD27">>, <<"U+D83A", "U+DD28">>, <<"U+D83A", "U+DD29">>,
     <<"U+D83A", "U+DD2A">>, <<"U+D83A", "U+DD2B">>, <<"U+D83A", "U+DD2C">>,
     <<"U+D83A", "U+DD2D">>, <<"U+D83A", "U+DD2E">>, <<"U+D83A", "U+DD2F">>,
     <<"U+D83A", "U+DD30">>, <<"U+D83A", "U+DD31">>, <<"U+D83A", "U+DD32">>,
     <<"U+D83A", "U+DD33">>, <<"U+D83A", "U+DD34">>, <<"U+D83A", "U+DD35">>,
     <<"U+D83A", "U+DD36">>, <<"U+D83A", "U+DD37">>, <<"U+D83A", "U+DD38">>,
     <<"U+D83A", "U+DD39">>, <<"U+D83A", "U+DD3A">>, <<"U+D83A", "U+DD3B">>,
     <<"U+D83A", "U+DD3C">>, <<"U+D83A", "U+DD3D">>, <<"U+D83A", "U+DD3E">>,
     <<"U+D83A", "U+DD3F">>, <<"U+D83A", "U+DD40">>, <<"U+D83A", "U+DD41">>,
     <<"U+D83A", "U+DD42">>, <<"U+D83A", "U+DD43">>, <<"U+D83C", "U+DD30">>,
     <<"U+D83C", "U+DD31">>, <<"U+D83C", "U+DD32">>, <<"U+D83C", "U+DD33">>,
     <<"U+D83C", "U+DD34">>, <<"U+D83C", "U+DD35">>, <<"U+D83C", "U+DD36">>,
     <<"U+D83C", "U+DD37">>, <<"U+D83C", "U+DD38">>, <<"U+D83C", "U+DD39">>,
     <<"U+D83C", "U+DD3A">>, <<"U+D83C", "U+DD3B">>, <<"U+D83C", "U+DD3C">>,
     <<"U+D83C", "U+DD3D">>, <<"U+D83C", "U+DD3E">>, <<"U+D83C", "U+DD3F">>,
     <<"U+D83C", "U+DD40">>, <<"U+D83C", "U+DD41">>, <<"U+D83C", "U+DD42">>,
     <<"U+D83C", "U+DD43">>, <<"U+D83C", "U+DD44">>, <<"U+D83C", "U+DD45">>,
     <<"U+D83C", "U+DD46">>, <<"U+D83C", "U+DD47">>, <<"U+D83C", "U+DD48">>,
     <<"U+D83C", "U+DD49">>, <<"U+D83C", "U+DD50">>, <<"U+D83C", "U+DD51">>,
     <<"U+D83C", "U+DD52">>, <<"U+D83C", "U+DD53">>, <<"U+D83C", "U+DD54">>,
     <<"U+D83C", "U+DD55">>, <<"U+D83C", "U+DD56">>, <<"U+D83C", "U+DD57">>,
     <<"U+D83C", "U+DD58">>, <<"U+D83C", "U+DD59">>, <<"U+D83C", "U+DD5A">>,
     <<"U+D83C", "U+DD5B">>, <<"U+D83C", "U+DD5C">>, <<"U+D83C", "U+DD5D">>,
     <<"U+D83C", "U+DD5E">>, <<"U+D83C", "U+DD5F">>, <<"U+D83C", "U+DD60">>,
     <<"U+D83C", "U+DD61">>, <<"U+D83C", "U+DD62">>, <<"U+D83C", "U+DD63">>,
     <<"U+D83C", "U+DD64">>, <<"U+D83C", "U+DD65">>, <<"U+D83C", "U+DD66">>,
     <<"U+D83C", "U+DD67">>, <<"U+D83C", "U+DD68">>, <<"U+D83C", "U+DD69">>,
     <<"U+D83C", "U+DD70">>, <<"U+D83C", "U+DD71">>, <<"U+D83C", "U+DD72">>,
     <<"U+D83C", "U+DD73">>, <<"U+D83C", "U+DD74">>, <<"U+D83C", "U+DD75">>,
     <<"U+D83C", "U+DD76">>, <<"U+D83C", "U+DD77">>, <<"U+D83C", "U+DD78">>,
     <<"U+D83C", "U+DD79">>, <<"U+D83C", "U+DD7A">>, <<"U+D83C", "U+DD7B">>,
     <<"U+D83C", "U+DD7C">>, <<"U+D83C", "U+DD7D">>, <<"U+D83C", "U+DD7E">>,
     <<"U+D83C", "U+DD7F">>, <<"U+D83C", "U+DD80">>, <<"U+D83C", "U+DD81">>,
     <<"U+D83C", "U+DD82">>, <<"U+D83C", "U+DD83">>, <<"U+D83C", "U+DD84">>,
     <<"U+D83C", "U+DD85">>, <<"U+D83C", "U+DD86">>, <<"U+D83C", "U+DD87">>,
     <<"U+D83C", "U+DD88">>, <<"U+D83C", "U+DD89">>
    }

\* the case-ignorable characters (marks, modifiers and the punctuation that
\* occurs inside words): those of one code unit, then those of two
CaseIgnorable ==
    {
     "'", ".", ":", "^", "U+0060", "U+00A8", "U+00AD", "U+00AF", "U+00B4", "U+00B7", "U+00B8",
     "U+02B0", "U+02B1", "U+02B2", "U+02B3", "U+02B4", "U+02B5", "U+02B6", "U+02B7", "U+02B8",
     "U+02B9", "U+02BA", "U+02BB", "U+02BC", "U+02BD", "U+02BE", "U+02BF", "U+02C0", "U+02C1",
     "U+02C2", "U+02C3", "U+02C4", "U+02C5", "U+02C6", "U+02C7", "U+02C8", "U+02C9", "U+02CA",
     "U+02CB", "U+02CC", "U+02CD", "U+02CE", "U+02CF", "U+02D0", "U+02D1", "U+02D2", "U+02D3",
     "U+02D4", "U+02D5", "U+02D6", "U+02D7", "U+02D8", "U+02D9", "U+02DA", "U+02DB", "U+02DC",
     "U+02DD", "U+02DE", "U+02DF", "U+02E0", "U+02E1", "U+02E2", "U+02E3", "U+02E4", "U+02E5",
     "U+02E6", "U+02E7", "U+02E8", "U+02E9", "U+02EA", "U+02EB", "U+02EC", "U+02ED", "U+02EE",
     "U+02EF", "U+02F0", "U+02F1", "U+02F2", "U+02F3", "U+02F4", "U+02F5", "U+02F6", "U+02F7",
     "U+02F8", "U+02F9", "U+02FA", "U+02FB", "U+02FC", "U+02FD", "U+02FE", "U+02FF", "U+0300",
     "U+0301", "U+0302", "U+0303", "U+0304", "U+0305", "U+0306", "U+0307", "U+0308", "U+0309",
     "U+030A", "U+030B", "U+030C", "U+030D", "U+030E", "U+030F", "U+0310", "U+0311", "U+0312",
     "U+0313", "U+0314", "U+0315", "U+0316", "U+0317", "U+0318", "U+0319", "U+031A", "U+031B",
     "U+031C", "U+031D", "U+031E", "U+031F", "U+0320", "U+0321", "U+0322", "U+0323", "U+0324",
     "U+0325", "U+0326", "U+0327", "U+0328", "U+0329", "U+032A", "U+032B", "U+032C", "U+032D",
     "U+032E", "U+032F", "U+0330", "U+0331", "U+0332", "U+0333", "U+0334", "U+0335", "U+0336",
     "U+0337", "U+0338", "U+0339", "U+033A", "U+033B", "U+033C", "U+033D", "U+033E", "U+033F",
     "U+0340", "U+0341", "U+0342", "U+0343", "U+0344", "U+0345", "U+0346", "U+0347", "U+0348",
     "U+0349", "U+034A", "U+034B", "U+034C", "U+034D", "U+034E", "U+034F", "U+0350", "U+0351",
     "U+0352", "U+0353", "U+0354", "U+0355", "U+0356", "U+0357", "U+0358", "U+0359", "U+035A",
     "U+035B", "U+035C", "U+035D", "U+035E", "U+035F", "U+0360", "U+0361", "U+0362", "U+0363",
     "U+0364", "U+0365", "U+0366", "U+0367", "U+0368", "U+0369", "U+036A", "U+036B", "U+036C",
     "U+036D", "U+036E", "U+036F", "U+0374", "U+0375", "U+037A", "U+0384", "U+0385", "U+0387",
     "U+0483", "U+0484", "U+0485", "U+0486", "U+0487", "U+0488", "U+0489", "U+0559", "U+055F",
     "U+0591", "U+0592", "U+0593", "U+0594", "U+0595", "U+0596", "U+0597", "U+0598", "U+0599",
     "U+059A", "U+059B", "U+059C", "U+059D", "U+059E", "U+059F", "U+05A0", "U+05A1", "U+05A2",
     "U+05A3", "U+05A4", "U+05A5", "U+05A6", "U+05A7", "U+05A8", "U+05A9", "U+05AA", "U+05AB",
     "U+05AC", "U+05AD", "U+05AE", "U+05AF", "U+05B0", "U+05B1", "U+05B2", "U+05B3", "U+05B4",
     "U+05B5", "U+05B6", "U+05B7", "U+05B8", "U+05B9", "U+05BA", "U+05BB", "U+05BC", "U+05BD",
     "U+05BF", "U+05C1", "U+05C2", "U+05C4", "U+05C5", "U+05C7", "U+05F4", "U+0600", "U+0601",
     "U+0602", "U+0603", "U+0604", "U+0605", "U+0610", "U+0611", "U+0612", "U+0613", "U+0614",
     "U+0615", "U+0616", "U+0617", "U+0618", "U+0619", "U+061A", "U+061C", "U+0640", "U+064B",
     "U+064C", "U+064D", "U+064E", "U+064F", "U+0650", "U+0651", "U+0652", "U+0653", "U+0654",
     "U+0655", "U+0656", "U+0657", "U+0658", "U+0659", "U+065A", "U+065B", "U+065C", "U+065D",
     "U+065E", "U+065F", "U+0670", "U+06D6", "U+06D7", "U+06D8", "U+06D9", "U+06DA", "U+06DB",
     "U+06DC", "U+06DD", "U+06DF", "U+06E0", "U+06E1", "U+06E2", "U+06E3", "U+06E4", "U+06E5",
     "U+06E6", "U+06E7", "U+06E8", "U+06EA", "U+06EB", "U+06EC", "U+06ED", "U+070F", "U+0711",
     "U+0730", "U+0731", "U+0732", "U+0733", "U+0734", "U+0735", "U+0736", "U+0737", "U+0738",
     "U+0739", "U+073A", "U+073B", "U+073C", "U+073D", "U+073E", "U+073F", "U+0740", "U+0741",
     "U+0742", "U+0743", "U+0744", "U+0745", "U+0746", "U+0747", "U+0748", "U+0749", "U+074A",
     "U+07A6", "U+07A7", "U+07A8", "U+07A9", "U+07AA", "U+07AB", "U+07AC", "U+07AD", "U+07AE",
     "U+07AF", "U+07B0", "U+07EB", "U+07EC", "U+07ED", "U+07EE", "U+07EF", "U+07F0", "U+07F1",
     "U+07F2", "U+07F3", "U+07F4", "U+07F5", "U+07FA", "U+07FD", "U+0816", "U+0817", "U+0818",
     "U+0819", "U+081A", "U+081B", "U+081C", "U+081D", "U+081E", "U+081F", "U+0820", "U+0821",
     "U+0822", "U+0823", "U+0824", "U+0825", "U+0826", "U+0827", "U+0828", "U+0829", "U+082A",
     "U+082B", "U+082C", "U+082D", "U+0859", "U+085A", "U+085B", "U+0888", "U+0890", "U+0891",
     "U+0897", "U+0898", "U+0899", "U+089A", "U+089B", "U+089C", "U+089D", "U+089E", "U+089F",
     "U+08C9", "U+08CA", "U+08CB", "U+08CC", "U+08CD", "U+08CE", "U+08CF", "U+08D0", "U+08D1",
     "U+08D2", "U+08D3", "U+08D4", "U+08D5", "U+08D6", "U+08D7", "U+08D8", "U+08D9", "U+08DA",
     "U+08DB", "U+08DC", "U+08DD", "U+08DE", "U+08DF", "U+08E0", "U+08E1", "U+08E2", "U+08E3",
     "U+08E4", "U+08E5", "U+08E6", "U+08E7", "U+08E8", "U+08E9", "U+08EA", "U+08EB", "U+08EC",
     "U+08ED", "U+08EE", "U+08EF", "U+08F0", "U+08F1", "U+08F2", "U+08F3", "U+08F4", "U+08F5",
     "U+08F6", "U+08F7", "U+08F8", "U+08F9", "U+08FA", "U+08FB", "U+08FC", "U+08FD", "U+08FE",
     "U+08FF", "U+0900", "U+0901", "U+0902", "U+093A", "U+093C", "U+0941", "U+0942", "U+0943",
     "U+0944", "U+0945", "U+0946", "U+0947", "U+0948", "U+094D", "U+0951", "U+0952", "U+0953",
     "U+0954", "U+0955", "U+0956", "U+0957", "U+0962", "U+0963", "U+0971", "U+0981", "U+09BC",
     "U+09C1", "U+09C2", "U+09C3", "U+09C4", "U+09CD", "U+09E2", "U+09E3", "U+09FE", "U+0A01",
     "U+0A02", "U+0A3C", "U+0A41", "U+0A42", "U+0A47", "U+0A48", "U+0A4B", "U+0A4C", "U+0A4D",
     "U+0A51", "U+0A70", "U+0A71", "U+0A75", "U+0A81", "U+0A82", "U+0ABC", "U+0AC1", "U+0AC2",
     "U+0AC3", "U+0AC4", "U+0AC5", "U+0AC7", "U+0AC8", "U+0ACD", "U+0AE2", "U+0AE3", "U+0AFA",
     "U+0AFB", "U+0AFC", "U+0AFD", "U+0AFE", "U+0AFF", "U+0B01", "U+0B3C", "U+0B3F", "U+0B41",
     "U+0B42", "U+0B43", "U+0B44", "U+0B4D", "U+0B55", "U+0B56", "U+0B62", "U+0B63", "U+0B82",
     "U+0BC0", "U+0BCD", "U+0C00", "U+0C04", "U+0C3C", "U+0C3E", "U+0C3F", "U+0C40", "U+0C46",
     "U+0C47", "U+0C48", "U+0C4A", "U+0C4B", "U+0C4C", "U+0C4D", "U+0C55", "U+0C56", "U+0C62",
     "U+0C63", "U+0C81", "U+0CBC", "U+0CBF", "U+0CC6", "U+0CCC", "U+0CCD", "U+0CE2", "U+0CE3",
     "U+0D00", "U+0D01", "U+0D3B", "U+0D3C", "U+0D41", "U+0D42", "U+0D43", "U+0D44", "U+0D4D",
     "U+0D62", "U+0D63", "U+0D81", "U+0DCA", "U+0DD2", "U+0DD3", "U+0DD4", "U+0DD6", "U+0E31",
     "U+0E34", "U+0E35", "U+0E36", "U+0E37", "U+0E38", "U+0E39", "U+0E3A", "U+0E46", "U+0E47",
     "U+0E48", "U+0E49", "U+0E4A", "U+0E4B", "U+0E4C", "U+0E4D", "U+0E4E", "U+0EB1", "U+0EB4",
     "U+0EB5", "U+0EB6", "U+0EB7", "U+0EB8", "U+0EB9", "U+0EBA", "U+0EBB", "U+0EBC", "U+0EC6",
     "U+0EC8", "U+0EC9", "U+0ECA", "U+0ECB", "U+0ECC", "U+0ECD", "U+0ECE", "U+0F18", "U+0F19",
     "U+0F35", "U+0F37", "U+0F39", "U+0F71", "U+0F72", "U+0F73", "U+0F74", "U+0F75", "U+0F76",
     "U+0F77", "U+0F78", "U+0F79", "U+0F7A", "U+0F7B", "U+0F7C", "U+0F7D", "U+0F7E", "U+0F80",
     "U+0F81", "U+0F82", "U+0F83", "U+0F84", "U+0F86", "U+0F87", "U+0F8D", "U+0F8E", "U+0F8F",
     "U+0F90", "U+0F91", "U+0F92", "U+0F93", "U+0F94", "U+0F95", "U+0F96", "U+0F97", "U+0F99",
     "U+0F9A", "U+0F9B", "U+0F9C", "U+0F9D", "U+0F9E", "U+0F9F", "U+0FA0", "U+0FA1", "U+0FA2",
     "U+0FA3", "U+0FA4", "U+0FA5", "U+0FA6", "U+0FA7", "U+0FA8", "U+0FA9", "U+0FAA", "U+0FAB",
     "U+0FAC", "U+0FAD", "U+0FAE", "U+0FAF", "U+0FB0", "U+0FB1", "U+0FB2", "U+0FB3", "U+0FB4",
     "U+0FB5", "U+0FB6", "U+0FB7", "U+0FB8", "U+0FB9", "U+0FBA", "U+0FBB", "U+0FBC", "U+0FC6",
     "U+102D", "U+102E", "U+102F", "U+1030", "U+1032", "U+1033", "U+1034", "U+1035", "U+1036",
     "U+1037", "U+1039", "U+103A", "U+103D", "U+103E", "U+1058", "U+1059", "U+105E", "U+105F",
     "U+1060", "U+1071", "U+1072", "U+1073", "U+1074", "U+1082", "U+1085", "U+1086", "U+108D",
     "U+109D", "U+10FC", "U+135D", "U+135E", "U+135F", "U+1712", "U+1713", "U+1714", "U+1732",
     "U+1733", "U+1752", "U+1753", "U+1772", "U+1773", "U+17B4", "U+17B5", "U+17B7", "U+17B8",
     "U+17B9", "U+17BA", "U+17BB", "U+17BC", "U+17BD", "U+17C6", "U+17C9", "U+17CA", "U+17CB",
     "U+17CC", "U+17CD", "U+17CE", "U+17CF", "U+17D0", "U+17D1", "U+17D2", "U+17D3", "U+17D7",
     "U+17DD", "U+180B", "U+180C", "U+180D", "U+180E", "U+180F", "U+1843", "U+1885", "U+1886",
     "U+18A9", "U+1920", "U+1921", "U+1922", "U+1927", "U+1928", "U+1932", "U+1939", "U+193A",
     "U+193B", "U+1A17", "U+1A18", "U+1A1B", "U+1A56", "U+1A58", "U+1A59", "U+1A5A", "U+1A5B",
     "U+1A5C", "U+1A5D", "U+1A5E", "U+1A60", "U+1A62", "U+1A65", "U+1A66", "U+1A67", "U+1A68",
     "U+1A69", "U+1A6A", "U+1A6B", "U+1A6C", "U+1A73", "U+1A74", "U+1A75", "U+1A76", "U+1A77",
     "U+1A78", "U+1A79", "U+1A7A", "U+1A7B", "U+1A7C", "U+1A7F", "U+1AA7", "U+1AB0", "U+1AB1",
     "U+1AB2", "U+1AB3", "U+1AB4", "U+1AB5", "U+1AB6", "U+1AB7", "U+1AB8", "U+1AB9", "U+1ABA",
     "U+1ABB", "U+1ABC", "U+1ABD", "U+1ABE", "U+1ABF", "U+1AC0", "U+1AC1", "U+1AC2", "U+1AC3",
     "U+1AC4", "U+1AC5", "U+1AC6", "U+1AC7", "U+1AC8", "U+1AC9", "U+1ACA", "U+1ACB", "U+1ACC",
     "U+1ACD", "U+1ACE", "U+1ACF", "U+1AD0", "U+1AD1", "U+1AD2", "U+1AD3", "U+1AD4", "U+1AD5",
     "U+1AD6", "U+1AD7", "U+1AD8", "U+1AD9", "U+1ADA", "U+1ADB", "U+1ADC", "U+1ADD", "U+1AE0",
     "U+1AE1", "U+1AE2", "U+1AE3", "U+1AE4", "U+1AE5", "U+1AE6", "U+1AE7", "U+1AE8", "U+1AE9",
     "U+1AEA", "U+1AEB", "U+1B00", "U+1B01", "U+1B02", "U+1B03", "U+1B34", "U+1B36", "U+1B37",
     "U+1B38", "U+1B39", "U+1B3A", "U+1B3C", "U+1B42", "U+1B6B", "U+1B6C", "U+1B6D", "U+1B6E",
     "U+1B6F", "U+1B70", "U+1B71", "U+1B72", "U+1B73", "U+1B80", "U+1B81", "U+1BA2", "U+1BA3",
     "U+1BA4", "U+1BA5", "U+1BA8", "U+1BA9", "U+1BAB", "U+1BAC", "U+1BAD", "U+1BE6", "U+1BE8",
     "U+1BE9", "U+1BED", "U+1BEF", "U+1BF0", "U+1BF1", "U+1C2C", "U+1C2D", "U+1C2E", "U+1C2F",
     "U+1C30", "U+1C31", "U+1C32", "U+1C33", "U+1C36", "U+1C37", "U+1C78", "U+1C79", "U+1C7A",
     "U+1C7B", "U+1C7C", "U+1C7D", "U+1CD0", "U+1CD1", "U+1CD2", "U+1CD4", "U+1CD5", "U+1CD6",
     "U+1CD7", "U+1CD8", "U+1CD9", "U+1CDA", "U+1CDB", "U+1CDC", "U+1CDD", "U+1CDE", "U+1CDF",
     "U+1CE0", "U+1CE2", "U+1CE3", "U+1CE4", "U+1CE5", "U+1CE6", "U+1CE7", "U+1CE8", "U+1CED",
     "U+1CF4", "U+1CF8", "U+1CF9", "U+1D2C", "U+1D2D", "U+1D2E", "U+1D2F", "U+1D30", "U+1D31",
     "U+1D32", "U+1D33", "U+1D34", "U+1D35", "U+1D36", "U+1D37", "U+1D38", "U+1D39", "U+1D3A",
     "U+1D3B", "U+1D3C", "U+1D3D", "U+1D3E", "U+1D3F", "U+1D40", "U+1D41", "U+1D42", "U+1D43",
     "U+1D44", "U+1D45", "U+1D46", "U+1D47", "U+1D48", "U+1D49", "U+1D4A", "U+1D4B", "U+1D4C",
     "U+1D4D", "U+1D4E", "U+1D4F", "U+1D50", "U+1D51", "U+1D52", "U+1D53", "U+1D54", "U+1D55",
     "U+1D56", "U+1D57", "U+1D58", "U+1D59", "U+1D5A", "U+1D5B", "U+1D5C", "U+1D5D", "U+1D5E",
     "U+1D5F", "U+1D60", "U+1D61", "U+1D62", "U+1D63", "U+1D64", "U+1D65", "U+1D66", "U+1D67",
     "U+1D68", "U+1D69", "U+1D6A", "U+1D78", "U+1D9B", "U+1D9C", "U+1D9D", "U+1D9E", "U+1D9F",
     "U+1DA0", "U+1DA1", "U+1DA2", "U+1DA3", "U+1DA4", "U+1DA5", "U+1DA6", "U+1DA7", "U+1DA8",
     "U+1DA9", "U+1DAA", "U+1DAB", "U+1DAC", "U+1DAD", "U+1DAE", "U+1DAF", "U+1DB0", "U+1DB1",
     "U+1DB2", "U+1DB3", "U+1DB4", "U+1DB5", "U+1DB6", "U+1DB7", "U+1DB8", "U+1DB9", "U+1DBA",
     "U+1DBB", "U+1DBC", "U+1DBD", "U+1DBE", "U+1DBF", "U+1DC0", "U+1DC1", "U+1DC2", "U+1DC3",
     "U+1DC4", "U+1DC5", "U+1DC6", "U+1DC7", "U+1DC8", "U+1DC9", "U+1DCA", "U+1DCB", "U+1DCC",
     "U+1DCD", "U+1DCE", "U+1DCF", "U+1DD0", "U+1DD1", "U+1DD2", "U+1DD3", "U+1DD4", "U+1DD5",
     "U+1DD6", "U+1DD7", "U+1DD8", "U+1DD9", "U+1DDA", "U+1DDB", "U+1DDC", "U+1DDD", "U+1DDE",
     "U+1DDF", "U+1DE0", "U+1DE1", "U+1DE2", "U+1DE3", "U+1DE4", "U+1DE5", "U+1DE6", "U+1DE7",
     "U+1DE8", "U+1DE9", "U+1DEA", "U+1DEB", "U+1DEC", "U+1DED", "U+1DEE", "U+1DEF", "U+1DF0",
     "U+1DF1", "U+1DF2", "U+1DF3", "U+1DF4", "U+1DF5", "U+1DF6", "U+1DF7", "U+1DF8", "U+1DF9",
     "U+1DFA", "U+1DFB", "U+1DFC", "U+1DFD", "U+1DFE", "U+1DFF", "U+1FBD", "U+1FBF", "U+1FC0",
     "U+1FC1", "U+1FCD", "U+1FCE", "U+1FCF", "U+1FDD", "U+1FDE", "U+1FDF", "U+1FED", "U+1FEE",
     "U+1FEF", "U+1FFD", "U+1FFE", "U+200B", "U+200C", "U+200D", "U+200E", "U+200F", "U+2018",
     "U+2019", "U+2024", "U+2027", "U+202A", "U+202B", "U+202C", "U+202D", "U+202E", "U+2060",
     "U+2061", "U+2062", "U+2063", "U+2064", "U+2066", "U+2067", "U+2068", "U+2069", "U+206A",
     "U+206B", "U+206C", "U+206D", "U+206E", "U+206F", "U+2071", "U+207F", "U+2090", "U+2091",
     "U+2092", "U+2093", "U+2094", "U+2095", "U+2096", "U+2097", "U+2098", "U+2099", "U+209A",
     "U+209B", "U+209C", "U+20D0", "U+20D1", "U+20D2", "U+20D3", "U+20D4", "U+20D5", "U+20D6",
     "U+20D7", "U+20D8", "U+20D9", "U+20DA", "U+20DB", "U+20DC", "U+20DD", "U+20DE", "U+20DF",
     "U+20E0", "U+20E1", "U+20E2", "U+20E3", "U+20E4", "U+20E5", "U+20E6", "U+20E7", "U+20E8",
     "U+20E9", "U+20EA", "U+20EB", "U+20EC", "U+20ED", "U+20EE", "U+20EF", "U+20F0", "U+2C7C",
     "U+2C7D", "U+2CEF", "U+2CF0", "U+2CF1", "U+2D6F", "U+2D7F", "U+2DE0", "U+2DE1", "U+2DE2",
     "U+2DE3", "U+2DE4", "U+2DE5", "U+2DE6", "U+2DE7", "U+2DE8", "U+2DE9", "U+2DEA", "U+2DEB",
     "U+2DEC", "U+2DED", "U+2DEE", "U+2DEF", "U+2DF0", "U+2DF1", "U+2DF2", "U+2DF3", "U+2DF4",
     "U+2DF5", "U+2DF6", "U+2DF7", "U+2DF8", "U+2DF9", "U+2DFA", "U+2DFB", "U+2DFC", "U+2DFD",
     "U+2DFE", "U+2DFF", "U+2E2F", "U+3005", "U+302A", "U+302B", "U+302C", "U+302D", "U+3031",
     "U+3032", "U+3033", "U+3034", "U+3035", "U+303B", "U+3099", "U+309A", "U+309B", "U+309C",
     "U+309D", "U+309E", "U+30FC", "U+30FD", "U+30FE", "U+A015", "U+A4F8", "U+A4F9", "U+A4FA",
     "U+A4FB", "U+A4FC", "U+A4FD", "U+A60C", "U+A66F", "U+A670", "U+A671", "U+A672", "U+A674",
     "U+A675", "U+A676", "U+A677", "U+A678", "U+A679", "U+A67A", "U+A67B", "U+A67C", "U+A67D",
     "U+A67F", "U+A69C", "U+A69D", "U+A69E", "U+A69F", "U+A6F0", "U+A6F1", "U+A700", "U+A701",
     "U+A702", "U+A703", "U+A704", "U+A705", "U+A706", "U+A707", "U+A708", "U+A709", "U+A70A",
     "U+A70B", "U+A70C", "U+A70D", "U+A70E", "U+A70F", "U+A710", "U+A711", "U+A712", "U+A713",
     "U+A714", "U+A715", "U+A716", "U+A717", "U+A718", "U+A719", "U+A71A", "U+A71B", "U+A71C",
     "U+A71D", "U+A71E", "U+A71F", "U+A720", "U+A721", "U+A770", "U+A788", "U+A789", "U+A78A",
     "U+A7F1", "U+A7F2", "U+A7F3", "U+A7F4", "U+A7F8", "U+A7F9", "U+A802", "U+A806", "U+A80B",
     "U+A825", "U+A826", "U+A82C", "U+A8C4", "U+A8C5", "U+A8E0", "U+A8E1", "U+A8E2", "U+A8E3",
     "U+A8E4", "U+A8E5", "U+A8E6", "U+A8E7", "U+A8E8", "U+A8E9", "U+A8EA", "U+A8EB", "U+A8EC",
     "U+A8ED", "U+A8EE", "U+A8EF", "U+A8F0", "U+A8F1", "U+A8FF", "U+A926", "U+A927", "U+A928",
     "U+A929", "U+A92A", "U+A92B", "U+A92C", "U+A92D", "U+A947", "U+A948", "U+A949", "U+A94A",
     "U+A94B", "U+A94C", "U+A94D", "U+A94E", "U+A94F", "U+A950", "U+A951", "U+A980", "U+A981",
     "U+A982", "U+A9B3", "U+A9B6", "U+A9B7", "U+A9B8", "U+A9B9", "U+A9BC", "U+A9BD", "U+A9CF",
     "U+A9E5", "U+A9E6", "U+AA29", "U+AA2A", "U+AA2B", "U+AA2C", "U+AA2D", "U+AA2E", "U+AA31",
     "U+AA32", "U+AA35", "U+AA36", "U+AA43", "U+AA4C", "U+AA70", "U+AA7C", "U+AAB0", "U+AAB2",
     "U+AAB3", "U+AAB4", "U+AAB7", "U+AAB8", "U+AABE", "U+AABF", "U+AAC1", "U+AADD", "U+AAEC",
     "U+AAED", "U+AAF3", "U+AAF4", "U+AAF6", "U+AB5B", "U+AB5C", "U+AB5D", "U+AB5E", "U+AB5F",
     "U+AB69", "U+AB6A", "U+AB6B", "U+ABE5", "U+ABE8", "U+ABED", "U+FB1E", "U+FBB2", "U+FBB3",
     "U+FBB4", "U+FBB5", "U+FBB6", "U+FBB7", "U+FBB8", "U+FBB9", "U+FBBA", "U+FBBB", "U+FBBC",
     "U+FBBD", "U+FBBE", "U+FBBF", "U+FBC0", "U+FBC1", "U+FBC2", "U+FE00", "U+FE01", "U+FE02",
     "U+FE03", "U+FE04", "U+FE05", "U+FE06", "U+FE07", "U+FE08", "U+FE09", "U+FE0A", "U+FE0B",
     "U+FE0C", "U+FE0D", "U+FE0E", "U+FE0F", "U+FE13", "U+FE20", "U+FE21", "U+FE22", "U+FE23",
     "U+FE24", "U+FE25", "U+FE26", "U+FE27", "U+FE28", "U+FE29", "U+FE2A", "U+FE2B", "U+FE2C",
     "U+FE2D", "U+FE2E", "U+FE2F", "U+FE52", "U+FE55", "U+FEFF", "U+FF07", "U+FF0E", "U+FF1A",
     "U+FF3E", "U+FF40", "U+FF70", "U+FF9E", "U+FF9F", "U+FFE3", "U+FFF9", "U+FFFA", "U+FFFB"
    }

CaseIgnorablePairs ==
    {
     <<"U+D800", "U+DDFD">>, <<"U+D800", "U+DEE0">>, <<"U+D800", "U+DF76">>,
     <<"U+D800", "U+DF77">>, <<"U+D800", "U+DF78">>, <<"U+D800", "U+DF79">>,
     <<"U+D800", "U+DF7A">>, <<"U+D801", "U+DF80">>, <<"U+D801", "U+DF81">>,
     <<"U+D801", "U+DF82">>, <<"U+D801", "U+DF83">>, <<"U+D801", "U+DF84">>,
     <<"U+D801", "U+DF85">>, <<"U+D801", "U+DF87">>, <<"U+D801", "U+DF88">>,
     <<"U+D801", "U+DF89">>, <<"U+D801", "U+DF8A">>, <<"U+D801", "U+DF8B">>,
     <<"U+D801", "U+DF8C">>, <<"U+D801", "U+DF8D">>, <<"U+D801", "U+DF8E">>,
     <<"U+D801", "U+DF8F">>, <<"U+D801", "U+DF90">>, <<"U+D801", "U+DF91">>,
     <<"U+D801", "U+DF92">>, <<"U+D801", "U+DF93">>, <<"U+D801", "U+DF94">>,
     <<"U+D801", "U+DF95">>, <<"U+D801", "U+DF96">>, <<"U+D801", "U+DF97">>,
     <<"U+D801", "U+DF98">>, <<"U+D801", "U+DF99">>, <<"U+D801", "U+DF9A">>,
     <<"U+D801", "U+DF9B">>, <<"U+D801", "U+DF9C">>, <<"U+D801", "U+DF9D">>,
     <<"U+D801", "U+DF9E">>, <<"U+D801", "U+DF9F">>, <<"U+D801", "U+DFA0">>,
     <<"U+D801", "U+DFA1">>, <<"U+D801", "U+DFA2">>, <<"U+D801", "U+DFA3">>,
     <<"U+D801", "U+DFA4">>, <<"U+D801", "U+DFA5">>, <<"U+D801", "U+DFA6">>,
     <<"U+D801", "U+DFA7">>, <<"U+D801", "U+DFA8">>, <<"U+D801", "U+DFA9">>,
     <<"U+D801", "U+DFAA">>, <<"U+D801", "U+DFAB">>, <<"U+D801", "U+DFAC">>,
     <<"U+D801", "U+DFAD">>, <<"U+D801", "U+DFAE">>, <<"U+D801", "U+DFAF">>,
     <<"U+D801", "U+DFB0">>, <<"U+D801", "U+DFB2">>, <<"U+D801", "U+DFB3">>,
     <<"U+D801", "U+DFB4">>, <<"U+D801", "U+DFB5">>, <<"U+D801", "U+DFB6">>,
     <<"U+D801", "U+DFB7">>, <<"U+D801", "U+DFB8">>, <<"U+D801", "U+DFB9">>,
     <<"U+D801", "U+DFBA">>, <<"U+D802", "U+DE01">>, <<"U+D802", "U+DE02">>,
     <<"U+D802", "U+DE03">>, <<"U+D802", "U+DE05">>, <<"U+D802", "U+DE06">>,
     <<"U+D802", "U+DE0C">>, <<"U+D802", "U+DE0D">>, <<"U+D802", "U+DE0E">>,
     <<"U+D802", "U+DE0F">>, <<"U+D802", "U+DE38">>, <<"U+D802", "U+DE39">>,
     <<"U+D802", "U+DE3A">>, <<"U+D802", "U+DE3F">>, <<"U+D802", "U+DEE5">>,
     <<"U+D802", "U+DEE6">>, <<"U+D803", "U+DD24">>, <<"U+D803", "U+DD25">>,
     <<"U+D803", "U+DD26">>, <<"U+D803", "U+DD27">>, <<"U+D803", "U+DD4E">>,
     <<"U+D803", "U+DD69">>, <<"U+D803", "U+DD6A">>, <<"U+D803", "U+DD6B">>,
     <<"U+D803", "U+DD6C">>, <<"U+D803", "U+DD6D">>, <<"U+D803", "U+DD6F">>,
     <<"U+D803", "U+DEAB">>, <<"U+D803", "U+DEAC">>, <<"U+D803", "U+DEC5">>,
     <<"U+D803", "U+DEFA">>, <<"U+D803", "U+DEFB">>, <<"U+D803", "U+DEFC">>,
     <<"U+D803", "U+DEFD">>, <<"U+D803", "U+DEFE">>, <<"U+D803", "U+DEFF">>,
     <<"U+D803", "U+DF46">>, <<"U+D803", "U+DF47">>, <<"U+D803", "U+DF48">>,
     <<"U+D803", "U+DF49">>, <<"U+D803", "U+DF4A">>, <<"U+D803", "U+DF4B">>,
     <<"U+D803", "U+DF4C">>, <<"U+D803", "U+DF4D">>, <<"U+D803", "U+DF4E">>,
     <<"U+D803", "U+DF4F">>, <<"U+D803", "U+DF50">>, <<"U+D803", "U+DF82">>,
     <<"U+D803", "U+DF83">>, <<"U+D803", "U+DF84">>, <<"U+D803", "U+DF85">>,
     <<"U+D804", "U+DC01">>, <<"U+D804", "U+DC38">>, <<"U+D804", "U+DC39">>,
     <<"U+D804", "U+DC3A">>, <<"U+D804", "U+DC3B">>, <<"U+D804", "U+DC3C">>,
     <<"U+D804", "U+DC3D">>, <<"U+D804", "U+DC3E">>, <<"U+D804", "U+DC3F">>,
     <<"U+D804", "U+DC40">>, <<"U+D804", "U+DC41">>, <<"U+D804", "U+DC42">>,
     <<"U+D804", "U+DC43">>, <<"U+D804", "U+DC44">>, <<"U+D804", "U+DC45">>,
     <<"U+D804", "U+DC46">>, <<"U+D804", "U+DC70">>, <<"U+D804", "U+DC73">>,
     <<"U+D804", "U+DC74">>, <<"U+D804", "U+DC7F">>, <<"U+D804", "U+DC80">>,
     <<"U+D804", "U+DC81">>, <<"U+D804", "U+DCB3">>, <<"U+D804", "U+DCB4">>,
     <<"U+D804", "U+DCB5">>, <<"U+D804", "U+DCB6">>, <<"U+D804", "U+DCB9">>,
     <<"U+D804", "U+DCBA">>, <<"U+D804", "U+DCBD">>, <<"U+D804", "U+DCC2">>,
     <<"U+D804", "U+DCCD">>, <<"U+D804", "U+DD00">>, <<"U+D804", "U+DD01">>,
     <<"U+D804", "U+DD02">>, <<"U+D804", "U+DD27">>, <<"U+D804", "U+DD28">>,
     <<"U+D804", "U+DD29">>, <<"U+D804", "U+DD2A">>, <<"U+D804", "U+DD2B">>,
     <<"U+D804", "U+DD2D">>, <<"U+D804", "U+DD2E">>, <<"U+D804", "U+DD2F">>,
     <<"U+D804", "U+DD30">>, <<"U+D804", "U+DD31">>, <<"U+D804", "U+DD32">>,
     <<"U+D804", "U+DD33">>, <<"U+D804", "U+DD34">>, <<"U+D804", "U+DD73">>,
     <<"U+D804", "U+DD80">>, <<"U+D804", "U+DD81">>, <<"U+D804", "U+DDB6">>,
     <<"U+D804", "U+DDB7">>, <<"U+D804", "U+DDB8">>, <<"U+D804", "U+DDB9">>,
     <<"U+D804", "U+DDBA">>, <<"U+D804", "U+DDBB">>, <<"U+D804", "U+DDBC">>,
     <<"U+D804", "U+DDBD">>, <<"U+D804", "U+DDBE">>, <<"U+D804", "U+DDC9">>,
     <<"U+D804", "U+DDCA">>, <<"U+D804", "U+DDCB">>, <<"U+D804", "U+DDCC">>,
     <<"U+D804", "U+DDCF">>, <<"U+D804", "U+DE2F">>, <<"U+D804", "U+DE30">>,
     <<"U+D804", "U+DE31">>, <<"U+D804", "U+DE34">>, <<"U+D804", "U+DE36">>,
     <<"U+D804", "U+DE37">>, <<"U+D804", "U+DE3E">>, <<"U+D804", "U+DE41">>,
     <<"U+D804", "U+DEDF">>, <<"U+D804", "U+DEE3">>, <<"U+D804", "U+DEE4">>,
     <<"U+D804", "U+DEE5">>, <<"U+D804", "U+DEE6">>, <<"U+D804", "U+DEE7">>,
     <<"U+D804", "U+DEE8">>, <<"U+D804", "U+DEE9">>, <<"U+D804", "U+DEEA">>,
     <<"U+D804", "U+DF00">>, <<"U+D804", "U+DF01">>, <<"U+D804", "U+DF3B">>,
     <<"U+D804", "U+DF3C">>, <<"U+D804", "U+DF40">>, <<"U+D804", "U+DF66">>,
     <<"U+D804", "U+DF67">>, <<"U+D804", "U+DF68">>, <<"U+D804", "U+DF69">>,
     <<"U+D804", "U+DF6A">>, <<"U+D804", "U+DF6B">>, <<"U+D804", "U+DF6C">>,
     <<"U+D804", "U+DF70">>, <<"U+D804", "U+DF71">>, <<"U+D804", "U+DF72">>,
     <<"U+D804", "U+DF73">>, <<"U+D804", "U+DF74">>, <<"U+D804", "U+DFBB">>,
     <<"U+D804", "U+DFBC">>, <<"U+D804", "U+DFBD">>, <<"U+D804", "U+DFBE">>,
     <<"U+D804", "U+DFBF">>, <<"U+D804", "U+DFC0">>, <<"U+D804", "U+DFCE">>,
     <<"U+D804", "U+DFD0">>, <<"U+D804", "U+DFD2">>, <<"U+D804", "U+DFE1">>,
     <<"U+D804", "U+DFE2">>, <<"U+D805", "U+DC38">>, <<"U+D805", "U+DC39">>,
     <<"U+D805", "U+DC3A">>, <<"U+D805", "U+DC3B">>, <<"U+D805", "U+DC3C">>,
     <<"U+D805", "U+DC3D">>, <<"U+D805", "U+DC3E">>, <<"U+D805", "U+DC3F">>,
     <<"U+D805", "U+DC42">>, <<"U+D805", "U+DC43">>, <<"U+D805", "U+DC44">>,
     <<"U+D805", "U+DC46">>, <<"U+D805", "U+DC5E">>, <<"U+D805", "U+DCB3">>,
     <<"U+D805", "U+DCB4">>, <<"U+D805", "U+DCB5">>, <<"U+D805", "U+DCB6">>,
     <<"U+D805", "U+DCB7">>, <<"U+D805", "U+DCB8">>, <<"U+D805", "U+DCBA">>,
     <<"U+D805", "U+DCBF">>, <<"U+D805", "U+DCC0">>, <<"U+D805", "U+DCC2">>,
     <<"U+D805", "U+DCC3">>, <<"U+D805", "U+DDB2">>, <<"U+D805", "U+DDB3">>,
     <<"U+D805", "U+DDB4">>, <<"U+D805", "U+DDB5">>, <<"U+D805", "U+DDBC">>,
     <<"U+D805", "U+DDBD">>, <<"U+D805", "U+DDBF">>, <<"U+D805", "U+DDC0">>,
     <<"U+D805", "U+DDDC">>, <<"U+D805", "U+DDDD">>, <<"U+D805", "U+DE33">>,
     <<"U+D805", "U+DE34">>, <<"U+D805", "U+DE35">>, <<"U+D805", "U+DE36">>,
     <<"U+D805", "U+DE37">>, <<"U+D805", "U+DE38">>, <<"U+D805", "U+DE39">>,
     <<"U+D805", "U+DE3A">>, <<"U+D805", "U+DE3D">>, <<"U+D805", "U+DE3F">>,
     <<"U+D805", "U+DE40">>, <<"U+D805", "U+DEAB">>, <<"U+D805", "U+DEAD">>,
     <<"U+D805", "U+DEB0">>, <<"U+D805", "U+DEB1">>, <<"U+D805", "U+DEB2">>,
     <<"U+D805", "U+DEB3">>, <<"U+D805", "U+DEB4">>, <<"U+D805", "U+DEB5">>,
     <<"U+D805", "U+DEB7">>, <<"U+D805", "U+DF1D">>, <<"U+D805", "U+DF1F">>,
     <<"U+D805", "U+DF22">>, <<"U+D805", "U+DF23">>, <<"U+D805", "U+DF24">>,
     <<"U+D805", "U+DF25">>, <<"U+D805", "U+DF27">>, <<"U+D805", "U+DF28">>,
     <<"U+D805", "U+DF29">>, <<"U+D805", "U+DF2A">>, <<"U+D805", "U+DF2B">>,
     <<"U+D806", "U+DC2F">>, <<"U+D806", "U+DC30">>, <<"U+D806", "U+DC31">>,
     <<"U+D806", "U+DC32">>, <<"U+D806", "U+DC33">>, <<"U+D806", "U+DC34">>,
     <<"U+D806", "U+DC35">>, <<"U+D806", "U+DC36">>, <<"U+D806", "U+DC37">>,
     <<"U+D806", "U+DC39">>, <<"U+D806", "U+DC3A">>, <<"U+D806", "U+DD3B">>,
     <<"U+D806", "U+DD3C">>, <<"U+D806", "U+DD3E">>, <<"U+D806", "U+DD43">>,
     <<"U+D806", "U+DDD4">>, <<"U+D806", "U+DDD5">>, <<"U+D806", "U+DDD6">>,
     <<"U+D806", "U+DDD7">>, <<"U+D806", "U+DDDA">>, <<"U+D806", "U+DDDB">>,
     <<"U+D806", "U+DDE0">>, <<"U+D806", "U+DE01">>, <<"U+D806", "U+DE02">>,
     <<"U+D806", "U+DE03">>, <<"U+D806", "U+DE04">>, <<"U+D806", "U+DE05">>,
     <<"U+D806", "U+DE06">>, <<"U+D806", "U+DE07">>, <<"U+D806", "U+DE08">>,
     <<"U+D806", "U+DE09">>, <<"U+D806", "U+DE0A">>, <<"U+D806", "U+DE33">>,
     <<"U+D806", "U+DE34">>, <<"U+D806", "U+DE35">>, <<"U+D806", "U+DE36">>,
     <<"U+D806", "U+DE37">>, <<"U+D806", "U+DE38">>, <<"U+D806", "U+DE3B">>,
     <<"U+D806", "U+DE3C">>, <<"U+D806", "U+DE3D">>, <<"U+D806", "U+DE3E">>,
     <<"U+D806", "U+DE47">>, <<"U+D806", "U+DE51">>, <<"U+D806", "U+DE52">>,
     <<"U+D806", "U+DE53">>, <<"U+D806", "U+DE54">>, <<"U+D806", "U+DE55">>,
     <<"U+D806", "U+DE56">>, <<"U+D806", "U+DE59">>, <<"U+D806", "U+DE5A">>,
     <<"U+D806", "U+DE5B">>, <<"U+D806", "U+DE8A">>, <<"U+D806", "U+DE8B">>,
     <<"U+D806", "U+DE8C">>, <<"U+D806", "U+DE8D">>, <<"U+D806", "U+DE8E">>,
     <<"U+D806", "U+DE8F">>, <<"U+D806", "U+DE90">>, <<"U+D806", "U+DE91">>,
     <<"U+D806", "U+DE92">>, <<"U+D806", "U+DE93">>, <<"U+D806", "U+DE94">>,
     <<"U+D806", "U+DE95">>, <<"U+D806", "U+DE96">>, <<"U+D806", "U+DE98">>,
     <<"U+D806", "U+DE99">>, <<"U+D806", "U+DF60">>, <<"U+D806", "U+DF62">>,
     <<"U+D806", "U+DF63">>, <<"U+D806", "U+DF64">>, <<"U+D806", "U+DF66">>,
     <<"U+D807", "U+DC30">>, <<"U+D807", "U+DC31">>, <<"U+D807", "U+DC32">>,
     <<"U+D807", "U+DC33">>, <<"U+D807", "U+DC34">>, <<"U+D807", "U+DC35">>,
     <<"U+D807", "U+DC36">>, <<"U+D807", "U+DC38">>, <<"U+D807", "U+DC39">>,
     <<"U+D807", "U+DC3A">>, <<"U+D807", "U+DC3B">>, <<"U+D807", "U+DC3C">>,
     <<"U+D807", "U+DC3D">>, <<"U+D807", "U+DC3F">>, <<"U+D807", "U+DC92">>,
     <<"U+D807", "U+DC93">>, <<"U+D807", "U+DC94">>, <<"U+D807", "U+DC95">>,
     <<"U+D807", "U+DC96">>, <<"U+D807", "U+DC97">>, <<"U+D807", "U+DC98">>,
     <<"U+D807", "U+DC99">>, <<"U+D807", "U+DC9A">>, <<"U+D807", "U+DC9B">>,
     <<"U+D807", "U+DC9C">>, <<"U+D807", "U+DC9D">>, <<"U+D807", "U+DC9E">>,
     <<"U+D807", "U+DC9F">>, <<"U+D807", "U+DCA0">>, <<"U+D807", "U+DCA1">>,
     <<"U+D807", "U+DCA2">>, <<"U+D807", "U+DCA3">>, <<"U+D807", "U+DCA4">>,
     <<"U+D807", "U+DCA5">>, <<"U+D807", "U+DCA6">>, <<"U+D807", "U+DCA7">>,
     <<"U+D807", "U+DCAA">>, <<"U+D807", "U+DCAB">>, <<"U+D807", "U+DCAC">>,
     <<"U+D807", "U+DCAD">>, <<"U+D807", "U+DCAE">>, <<"U+D807", "U+DCAF">>,
     <<"U+D807", "U+DCB0">>, <<"U+D807", "U+DCB2">>, <<"U+D807", "U+DCB3">>,
     <<"U+D807", "U+DCB5">>, <<"U+D807", "U+DCB6">>, <<"U+D807", "U+DD31">>,
     <<"U+D807", "U+DD32">>, <<"U+D807", "U+DD33">>, <<"U+D807", "U+DD34">>,
     <<"U+D807", "U+DD35">>, <<"U+D807", "U+DD36">>, <<"U+D807", "U+DD3A">>,
     <<"U+D807", "U+DD3C">>, <<"U+D807", "U+DD3D">>, <<"U+D807", "U+DD3F">>,
     <<"U+D807", "U+DD40">>, <<"U+D807", "U+DD41">>, <<"U+D807", "U+DD42">>,
     <<"U+D807", "U+DD43">>, <<"U+D807", "U+DD44">>, <<"U+D807", "U+DD45">>,
     <<"U+D807", "U+DD47">>, <<"U+D807", "U+DD90">>, <<"U+D807", "U+DD91">>,
     <<"U+D807", "U+DD95">>, <<"U+D807", "U+DD97">>, <<"U+D807", "U+DDD9">>,
     <<"U+D807", "U+DEF3">>, <<"U+D807", "U+DEF4">>, <<"U+D807", "U+DF00">>,
     <<"U+D807", "U+DF01">>, <<"U+D807", "U+DF36">>, <<"U+D807", "U+DF37">>,
     <<"U+D807", "U+DF38">>, <<"U+D807", "U+DF39">>, <<"U+D807", "U+DF3A">>,
     <<"U+D807", "U+DF40">>, <<"U+D807", "U+DF42">>, <<"U+D807", "U+DF5A">>,
     <<"U+D80D", "U+DC30">>, <<"U+D80D", "U+DC31">>, <<"U+D80D", "U+DC32">>,
     <<"U+D80D", "U+DC33">>, <<"U+D80D", "U+DC34">>, <<"U+D80D", "U+DC35">>,
     <<"U+D80D", "U+DC36">>, <<"U+D80D", "U+DC37">>, <<"U+D80D", "U+DC38">>,
     <<"U+D80D", "U+DC39">>, <<"U+D80D", "U+DC3A">>, <<"U+D80D", "U+DC3B">>,
     <<"U+D80D", "U+DC3C">>, <<"U+D80D", "U+DC3D">>, <<"U+D80D", "U+DC3E">>,
     <<"U+D80D", "U+DC3F">>, <<"U+D80D", "U+DC40">>, <<"U+D80D", "U+DC47">>,
     <<"U+D80D", "U+DC48">>, <<"U+D80D", "U+DC49">>, <<"U+D80D", "U+DC4A">>,
     <<"U+D80D", "U+DC4B">>, <<"U+D80D", "U+DC4C">>, <<"U+D80D", "U+DC4D">>,
     <<"U+D80D", "U+DC4E">>, <<"U+D80D", "U+DC4F">>, <<"U+D80D", "U+DC50">>,
     <<"U+D80D", "U+DC51">>, <<"U+D80D", "U+DC52">>, <<"U+D80D", "U+DC53">>,
     <<"U+D80D", "U+DC54">>, <<"U+D80D", "U+DC55">>, <<"U+D818", "U+DD1E">>,
     <<"U+D818", "U+DD1F">>, <<"U+D818", "U+DD20">>, <<"U+D818", "U+DD21">>,
     <<"U+D818", "U+DD22">>, <<"U+D818", "U+DD23">>, <<"U+D818", "U+DD24">>,
     <<"U+D818", "U+DD25">>, <<"U+D818", "U+DD26">>, <<"U+D818", "U+DD27">>,
     <<"U+D818", "U+DD28">>, <<"U+D818", "U+DD29">>, <<"U+D818", "U+DD2D">>,
     <<"U+D818", "U+DD2E">>, <<"U+D818", "U+DD2F">>, <<"U+D81A", "U+DEF0">>,
     <<"U+D81A", "U+DEF1">>, <<"U+D81A", "U+DEF2">>, <<"U+D81A", "U+DEF3">>,
     <<"U+D81A", "U+DEF4">>, <<"U+D81A", "U+DF30">>, <<"U+D81A", "U+DF31">>,
     <<"U+D81A", "U+DF32">>, <<"U+D81A", "U+DF33">>, <<"U+D81A", "U+DF34">>,
     <<"U+D81A", "U+DF35">>, <<"U+D81A", "U+DF36">>, <<"U+D81A", "U+DF40">>,
     <<"U+D81A", "U+DF41">>, <<"U+D81A", "U+DF42">>, <<"U+D81A", "U+DF43">>,
     <<"U+D81B", "U+DD40">>, <<"U+D81B", "U+DD41">>, <<"U+D81B", "U+DD42">>,
     <<"U+D81B", "U+DD6B">>, <<"U+D81B", "U+DD6C">>, <<"U+D81B", "U+DF4F">>,
     <<"U+D81B", "U+DF8F">>, <<"U+D81B", "U+DF90">>, <<"U+D81B", "U+DF91">>,
     <<"U+D81B", "U+DF92">>, <<"U+D81B", "U+DF93">>, <<"U+D81B", "U+DF94">>,
     <<"U+D81B", "U+DF95">>, <<"U+D81B", "U+DF96">>, <<"U+D81B", "U+DF97">>,
     <<"U+D81B", "U+DF98">>, <<"U+D81B", "U+DF99">>, <<"U+D81B", "U+DF9A">>,
     <<"U+D81B", "U+DF9B">>, <<"U+D81B", "U+DF9C">>, <<"U+D81B", "U+DF9D">>,
     <<"U+D81B", "U+DF9E">>, <<"U+D81B", "U+DF9F">>, <<"U+D81B", "U+DFE0">>,
     <<"U+D81B", "U+DFE1">>, <<"U+D81B", "U+DFE3">>, <<"U+D81B", "U+DFE4">>,
     <<"U+D81B", "U+DFF2">>, <<"U+D81B", "U+DFF3">>, <<"U+D82B", "U+DFF0">>,
     <<"U+D82B", "U+DFF1">>, <<"U+D82B", "U+DFF2">>, <<"U+D82B", "U+DFF3">>,
     <<"U+D82B", "U+DFF5">>, <<"U+D82B", "U+DFF6">>, <<"U+D82B", "U+DFF7">>,
     <<"U+D82B", "U+DFF8">>, <<"U+D82B", "U+DFF9">>, <<"U+D82B", "U+DFFA">>,
     <<"U+D82B", "U+DFFB">>, <<"U+D82B", "U+DFFD">>, <<"U+D82B", "U+DFFE">>,
     <<"U+D82F", "U+DC9D">>, <<"U+D82F", "U+DC9E">>, <<"U+D82F", "U+DCA0">>,
     <<"U+D82F", "U+DCA1">>, <<"U+D82F", "U+DCA2">>, <<"U+D82F", "U+DCA3">>,
     <<"U+D833", "U+DF00">>, <<"U+D833", "U+DF01">>, <<"U+D833", "U+DF02">>,
     <<"U+D833", "U+DF03">>, <<"U+D833", "U+DF04">>, <<"U+D833", "U+DF05">>,
     <<"U+D833", "U+DF06">>, <<"U+D833", "U+DF07">>, <<"U+D833", "U+DF08">>,
     <<"U+D833", "U+DF09">>, <<"U+D833", "U+DF0A">>, <<"U+D833", "U+DF0B">>,
     <<"U+D833", "U+DF0C">>, <<"U+D833", "U+DF0D">>, <<"U+D833", "U+DF0E">>,
     <<"U+D833", "U+DF0F">>, <<"U+D833", "U+DF10">>, <<"U+D833", "U+DF11">>,
     <<"U+D833", "U+DF12">>, <<"U+D833", "U+DF13">>, <<"U+D833", "U+DF14">>,
     <<"U+D833", "U+DF15">>, <<"U+D833", "U+DF16">>, <<"U+D833", "U+DF17">>,
     <<"U+D833", "U+DF18">>, <<"U+D833", "U+DF19">>, <<"U+D833", "U+DF1A">>,
     <<"U+D833", "U+DF1B">>, <<"U+D833", "U+DF1C">>, <<"U+D833", "U+DF1D">>,
     <<"U+D833", "U+DF1E">>, <<"U+D833", "U+DF1F">>, <<"U+D833", "U+DF20">>,
     <<"U+D833", "U+DF21">>, <<"U+D833", "U+DF22">>, <<"U+D833", "U+DF23">>,
     <<"U+D833", "U+DF24">>, <<"U+D833", "U+DF25">>, <<"U+D833", "U+DF26">>,
     <<"U+D833", "U+DF27">>, <<"U+D833", "U+DF28">>, <<"U+D833", "U+DF29">>,
     <<"U+D833", "U+DF2A">>, <<"U+D833", "U+DF2B">>, <<"U+D833", "U+DF2C">>,
     <<"U+D833", "U+DF2D">>, <<"U+D833", "U+DF30">>, <<"U+D833", "U+DF31">>,
     <<"U+D833", "U+DF32">>, <<"U+D833", "U+DF33">>, <<"U+D833", "U+DF34">>,
     <<"U+D833", "U+DF35">>, <<"U+D833", "U+DF36">>, <<"U+D833", "U+DF37">>,
     <<"U+D833", "U+DF38">>, <<"U+D833", "U+DF39">>, <<"U+D833", "U+DF3A">>,
     <<"U+D833", "U+DF3B">>, <<"U+D833", "U+DF3C">>, <<"U+D833", "U+DF3D">>,
     <<"U+D833", "U+DF3E">>, <<"U+D833", "U+DF3F">>, <<"U+D833", "U+DF40">>,
     <<"U+D833", "U+DF41">>, <<"U+D833", "U+DF42">>, <<"U+D833", "U+DF43">>,
     <<"U+D833", "U+DF44">>, <<"U+D833", "U+DF45">>, <<"U+D833", "U+DF46">>,
     <<"U+D834", "U+DD67">>, <<"U+D834", "U+DD68">>, <<"U+D834", "U+DD69">>,
     <<"U+D834", "U+DD73">>, <<"U+D834", "U+DD74">>, <<"U+D834", "U+DD75">>,
     <<"U+D834", "U+DD76">>, <<"U+D834", "U+DD77">>, <<"U+D834", "U+DD78">>,
     <<"U+D834", "U+DD79">>, <<"U+D834", "U+DD7A">>, <<"U+D834", "U+DD7B">>,
     <<"U+D834", "U+DD7C">>, <<"U+D834", "U+DD7D">>, <<"U+D834", "U+DD7E">>,
     <<"U+D834", "U+DD7F">>, <<"U+D834", "U+DD80">>, <<"U+D834", "U+DD81">>,
     <<"U+D834", "U+DD82">>, <<"U+D834", "U+DD85">>, <<"U+D834", "U+DD86">>,
     <<"U+D834", "U+DD87">>, <<"U+D834", "U+DD88">>, <<"U+D834", "U+DD89">>,
     <<"U+D834", "U+DD8A">>, <<"U+D834", "U+DD8B">>, <<"U+D834", "U+DDAA">>,
     <<"U+D834", "U+DDAB">>, <<"U+D834", "U+DDAC">>, <<"U+D834", "U+DDAD">>,
     <<"U+D834", "U+DE42">>, <<"U+D834", "U+DE43">>, <<"U+D834", "U+DE44">>,
     <<"U+D836", "U+DE00">>, <<"U+D836", "U+DE01">>, <<"U+D836", "U+DE02">>,
     <<"U+D836", "U+DE03">>, <<"U+D836", "U+DE04">>, <<"U+D836", "U+DE05">>,
     <<"U+D836", "U+DE06">>, <<"U+D836", "U+DE07">>, <<"U+D836", "U+DE08">>,
     <<"U+D836", "U+DE09">>, <<"U+D836", "U+DE0A">>, <<"U+D836", "U+DE0B">>,
     <<"U+D836", "U+DE0C">>, <<"U+D836", "U+DE0D">>, <<"U+D836", "U+DE0E">>,
     <<"U+D836", "U+DE0F">>, <<"U+D836", "U+DE10">>, <<"U+D836", "U+DE11">>,
     <<"U+D836", "U+DE12">>, <<"U+D836", "U+DE13">>, <<"U+D836", "U+DE14">>,
     <<"U+D836", "U+DE15">>, <<"U+D836", "U+DE16">>, <<"U+D836", "U+DE17">>,
     <<"U+D836", "U+DE18">>, <<"U+D836", "U+DE19">>, <<"U+D836", "U+DE1A">>,
     <<"U+D836", "U+DE1B">>, <<"U+D836", "U+DE1C">>, <<"U+D836", "U+DE1D">>,
     <<"U+D836", "U+DE1E">>, <<"U+D836", "U+DE1F">>, <<"U+D836", "U+DE20">>,
     <<"U+D836", "U+DE21">>, <<"U+D836", "U+DE22">>, <<"U+D836", "U+DE23">>,
     <<"U+D836", "U+DE24">>, <<"U+D836", "U+DE25">>, <<"U+D836", "U+DE26">>,
     <<"U+D836", "U+DE27">>, <<"U+D836", "U+DE28">>, <<"U+D836", "U+DE29">>,
     <<"U+D836", "U+DE2A">>, <<"U+D836", "U+DE2B">>, <<"U+D836", "U+DE2C">>,
     <<"U+D836", "U+DE2D">>, <<"U+D836", "U+DE2E">>, <<"U+D836", "U+DE2F">>,
     <<"U+D836", "U+DE30">>, <<"U+D836", "U+DE31">>, <<"U+D836", "U+DE32">>,
     <<"U+D836", "U+DE33">>, <<"U+D836", "U+DE34">>, <<"U+D836", "U+DE35">>,
     <<"U+D836", "U+DE36">>, <<"U+D836", "U+DE3B">>, <<"U+D836", "U+DE3C">>,
     <<"U+D836", "U+DE3D">>, <<"U+D836", "U+DE3E">>, <<"U+D836", "U+DE3F">>,
     <<"U+D836", "U+DE40">>, <<"U+D836", "U+DE41">>, <<"U+D836", "U+DE42">>,
     <<"U+D836", "U+DE43">>, <<"U+D836", "U+DE44">>, <<"U+D836", "U+DE45">>,
     <<"U+D836", "U+DE46">>, <<"U+D836", "U+DE47">>, <<"U+D836", "U+DE48">>,
     <<"U+D836", "U+DE49">>, <<"U+D836", "U+DE4A">>, <<"U+D836", "U+DE4B">>,
     <<"U+D836", "U+DE4C">>, <<"U+D836", "U+DE4D">>, <<"U+D836", "U+DE4E">>,
     <<"U+D836", "U+DE4F">>, <<"U+D836", "U+DE50">>, <<"U+D836", "U+DE51">>,
     <<"U+D836", "U+DE52">>, <<"U+D836", "U+DE53">>, <<"U+D836", "U+DE54">>,
     <<"U+D836", "U+DE55">>, <<"U+D836", "U+DE56">>, <<"U+D836", "U+DE57">>,
     <<"U+D836", "U+DE58">>, <<"U+D836", "U+DE59">>, <<"U+D836", "U+DE5A">>,
     <<"U+D836", "U+DE5B">>, <<"U+D836", "U+DE5C">>, <<"U+D836", "U+DE5D">>,
     <<"U+D836", "U+DE5E">>, <<"U+D836", "U+DE5F">>, <<"U+D836", "U+DE60">>,
     <<"U+D836", "U+DE61">>, <<"U+D836", "U+DE62">>, <<"U+D836", "U+DE63">>,
     <<"U+D836", "U+DE64">>, <<"U+D836", "U+DE65">>, <<"U+D836", "U+DE66">>,
     <<"U+D836", "U+DE67">>, <<"U+D836", "U+DE68">>, <<"U+D836", "U+DE69">>,
     <<"U+D836", "U+DE6A">>, <<"U+D836", "U+DE6B">>, <<"U+D836", "U+DE6C">>,
     <<"U+D836", "U+DE75">>, <<"U+D836", "U+DE84">>, <<"U+D836", "U+DE9B">>,
     <<"U+D836", "U+DE9C">>, <<"U+D836", "U+DE9D">>, <<"U+D836", "U+DE9E">>,
     <<"U+D836", "U+DE9F">>, <<"U+D836", "U+DEA1">>, <<"U+D836", "U+DEA2">>,
     <<"U+D836", "U+DEA3">>, <<"U+D836", "U+DEA4">>, <<"U+D836", "U+DEA5">>,
     <<"U+D836", "U+DEA6">>, <<"U+D836", "U+DEA7">>, <<"U+D836", "U+DEA8">>,
     <<"U+D836", "U+DEA9">>, <<"U+D836", "U+DEAA">>, <<"U+D836", "U+DEAB">>,
     <<"U+D836", "U+DEAC">>, <<"U+D836", "U+DEAD">>, <<"U+D836", "U+DEAE">>,
     <<"U+D836", "U+DEAF">>, <<"U+D838", "U+DC00">>, <<"U+D838", "U+DC01">>,
     <<"U+D838", "U+DC02">>, <<"U+D838", "U+DC03">>, <<"U+D838", "U+DC04">>,
     <<"U+D838", "U+DC05">>, <<"U+D838", "U+DC06">>, <<"U+D838", "U+DC08">>,
     <<"U+D838", "U+DC09">>, <<"U+D838", "U+DC0A">>, <<"U+D838", "U+DC0B">>,
     <<"U+D838", "U+DC0C">>, <<"U+D838", "U+DC0D">>, <<"U+D838", "U+DC0E">>,
     <<"U+D838", "U+DC0F">>, <<"U+D838", "U+DC10">>, <<"U+D838", "U+DC11">>,
     <<"U+D838", "U+DC12">>, <<"U+D838", "U+DC13">>, <<"U+D838", "U+DC14">>,
     <<"U+D838", "U+DC15">>, <<"U+D838", "U+DC16">>, <<"U+D838", "U+DC17">>,
     <<"U+D838", "U+DC18">>, <<"U+D838", "U+DC1B">>, <<"U+D838", "U+DC1C">>,
     <<"U+D838", "U+DC1D">>, <<"U+D838", "U+DC1E">>, <<"U+D838", "U+DC1F">>,
     <<"U+D838", "U+DC20">>, <<"U+D838", "U+DC21">>, <<"U+D838", "U+DC23">>,
     <<"U+D838", "U+DC24">>, <<"U+D838", "U+DC26">>, <<"U+D838", "U+DC27">>,
     <<"U+D838", "U+DC28">>, <<"U+D838", "U+DC29">>, <<"U+D838", "U+DC2A">>,
     <<"U+D838", "U+DC30">>, <<"U+D838", "U+DC31">>, <<"U+D838", "U+DC32">>,
     <<"U+D838", "U+DC33">>, <<"U+D838", "U+DC34">>, <<"U+D838", "U+DC35">>,
     <<"U+D838", "U+DC36">>, <<"U+D838", "U+DC37">>, <<"U+D838", "U+DC38">>,
     <<"U+D838", "U+DC39">>, <<"U+D838", "U+DC3A">>, <<"U+D838", "U+DC3B">>,
     <<"U+D838", "U+DC3C">>, <<"U+D838", "U+DC3D">>, <<"U+D838", "U+DC3E">>,
     <<"U+D838", "U+DC3F">>, <<"U+D838", "U+DC40">>, <<"U+D838", "U+DC41">>,
     <<"U+D838", "U+DC42">>, <<"U+D838", "U+DC43">>, <<"U+D838", "U+DC44">>,
     <<"U+D838", "U+DC45">>, <<"U+D838", "U+DC46">>, <<"U+D838", "U+DC47">>,
     <<"U+D838", "U+DC48">>, <<"U+D838", "U+DC49">>, <<"U+D838", "U+DC4A">>,
     <<"U+D838", "U+DC4B">>, <<"U+D838", "U+DC4C">>, <<"U+D838", "U+DC4D">>,
     <<"U+D838", "U+DC4E">>, <<"U+D838", "U+DC4F">>, <<"U+D838", "U+DC50">>,
     <<"U+D838", "U+DC51">>, <<"U+D838", "U+DC52">>, <<"U+D838", "U+DC53">>,
     <<"U+D838", "U+DC54">>, <<"U+D838", "U+DC55">>, <<"U+D838", "U+DC56">>,
     <<"U+D838", "U+DC57">>, <<"U+D838", "U+DC58">>, <<"U+D838", "U+DC59">>,
     <<"U+D838", "U+DC5A">>, <<"U+D838", "U+DC5B">>, <<"U+D838", "U+DC5C">>,
     <<"U+D838", "U+DC5D">>, <<"U+D838", "U+DC5E">>, <<"U+D838", "U+DC5F">>,
     <<"U+D838", "U+DC60">>, <<"U+D838", "U+DC61">>, <<"U+D838", "U+DC62">>,
     <<"U+D838", "U+DC63">>, <<"U+D838", "U+DC64">>, <<"U+D838", "U+DC65">>,
     <<"U+D838", "U+DC66">>, <<"U+D838", "U+DC67">>, <<"U+D838", "U+DC68">>,
     <<"U+D838", "U+DC69">>, <<"U+D838", "U+DC6A">>, <<"U+D838", "U+DC6B">>,
     <<"U+D838", "U+DC6C">>, <<"U+D838", "U+DC6D">>, <<"U+D838", "U+DC8F">>,
     <<"U+D838", "U+DD30">>, <<"U+D838", "U+DD31">>, <<"U+D838", "U+DD32">>,
     <<"U+D838", "U+DD33">>, <<"U+D838", "U+DD34">>, <<"U+D838", "U+DD35">>,
     <<"U+D838", "U+DD36">>, <<"U+D838", "U+DD37">>, <<"U+D838", "U+DD38">>,
     <<"U+D838", "U+DD39">>, <<"U+D838", "U+DD3A">>, <<"U+D838", "U+DD3B">>,
     <<"U+D838", "U+DD3C">>, <<"U+D838", "U+DD3D">>, <<"U+D838", "U+DEAE">>,
     <<"U+D838", "U+DEEC">>, <<"U+D838", "U+DEED">>, <<"U+D838", "U+DEEE">>,
     <<"U+D838", "U+DEEF">>, <<"U+D839", "U+DCEB">>, <<"U+D839", "U+DCEC">>,
     <<"U+D839", "U+DCED">>, <<"U+D839", "U+DCEE">>, <<"U+D839", "U+DCEF">>,
     <<"U+D839", "U+DDEE">>, <<"U+D839", "U+DDEF">>, <<"U+D839", "U+DEE3">>,
     <<"U+D839", "U+DEE6">>, <<"U+D839", "U+DEEE">>, <<"U+D839", "U+DEEF">>,
     <<"U+D839", "U+DEF5">>, <<"U+D839", "U+DEFF">>, <<"U+D83A", "U+DCD0">>,
     <<"U+D83A", "U+DCD1">>, <<"U+D83A", "U+DCD2">>, <<"U+D83A", "U+DCD3">>,
     <<"U+D83A", "U+DCD4">>, <<"U+D83A", "U+DCD5">>, <<"U+D83A", "U+DCD6">>,
     <<"U+D83A", "U+DD44">>, <<"U+D83A", "U+DD45">>, <<"U+D83A", "U+DD46">>,
     <<"U+D83A", "U+DD47">>, <<"U+D83A", "U+DD48">>, <<"U+D83A", "U+DD49">>,
     <<"U+D83A", "U+DD4A">>, <<"U+D83A", "U+DD4B">>, <<"U+D83C", "U+DFFB">>,
     <<"U+D83C", "U+DFFC">>, <<"U+D83C", "U+DFFD">>, <<"U+D83C", "U+DFFE">>,
     <<"U+D83C", "U+DFFF">>, <<"U+DB40", "U+DC01">>, <<"U+DB40", "U+DC20">>,
     <<"U+DB40", "U+DC21">>, <<"U+DB40", "U+DC22">>, <<"U+DB40", "U+DC23">>,
     <<"U+DB40", "U+DC24">>, <<"U+DB40", "U+DC25">>, <<"U+DB40", "U+DC26">>,
     <<"U+DB40", "U+DC27">>, <<"U+DB40", "U+DC28">>, <<"U+DB40", "U+DC29">>,
     <<"U+DB40", "U+DC2A">>, <<"U+DB40", "U+DC2B">>, <<"U+DB40", "U+DC2C">>,
     <<"U+DB40", "U+DC2D">>, <<"U+DB40", "U+DC2E">>, <<"U+DB40", "U+DC2F">>,
     <<"U+DB40", "U+DC30">>, <<"U+DB40", "U+DC31">>, <<"U+DB40", "U+DC32">>,
     <<"U+DB40", "U+DC33">>, <<"U+DB40", "U+DC34">>, <<"U+DB40", "U+DC35">>,
     <<"U+DB40", "U+DC36">>, <<"U+DB40", "U+DC37">>, <<"U+DB40", "U+DC38">>,
     <<"U+DB40", "U+DC39">>, <<"U+DB40", "U+DC3A">>, <<"U+DB40", "U+DC3B">>,
     <<"U+DB40", "U+DC3C">>, <<"U+DB40", "U+DC3D">>, <<"U+DB40", "U+DC3E">>,
     <<"U+DB40", "U+DC3F">>, <<"U+DB40", "U+DC40">>, <<"U+DB40", "U+DC41">>,
     <<"U+DB40", "U+DC42">>, <<"U+DB40", "U+DC43">>, <<"U+DB40", "U+DC44">>,
     <<"U+DB40", "U+DC45">>, <<"U+DB40", "U+DC46">>, <<"U+DB40", "U+DC47">>,
     <<"U+DB40", "U+DC48">>, <<"U+DB40", "U+DC49">>, <<"U+DB40", "U+DC4A">>,
     <<"U+DB40", "U+DC4B">>, <<"U+DB40", "U+DC4C">>, <<"U+DB40", "U+DC4D">>,
     <<"U+DB40", "U+DC4E">>, <<"U+DB40", "U+DC4F">>, <<"U+DB40", "U+DC50">>,
     <<"U+DB40", "U+DC51">>, <<"U+DB40", "U+DC52">>, <<"U+DB40", "U+DC53">>,
     <<"U+DB40", "U+DC54">>, <<"U+DB40", "U+DC55">>, <<"U+DB40", "U+DC56">>,
     <<"U+DB40", "U+DC57">>, <<"U+DB40", "U+DC58">>, <<"U+DB40", "U+DC59">>,
     <<"U+DB40", "U+DC5A">>, <<"U+DB40", "U+DC5B">>, <<"U+DB40", "U+DC5C">>,
     <<"U+DB40", "U+DC5D">>, <<"U+DB40", "U+DC5E">>, <<"U+DB40", "U+DC5F">>,
     <<"U+DB40", "U+DC60">>, <<"U+DB40", "U+DC61">>, <<"U+DB40", "U+DC62">>,
     <<"U+DB40", "U+DC63">>, <<"U+DB40", "U+DC64">>, <<"U+DB40", "U+DC65">>,
     <<"U+DB40", "U+DC66">>, <<"U+DB40", "U+DC67">>, <<"U+DB40", "U+DC68">>,
     <<"U+DB40", "U+DC69">>, <<"U+DB40", "U+DC6A">>, <<"U+DB40", "U+DC6B">>,
     <<"U+DB40", "U+DC6C">>, <<"U+DB40", "U+DC6D">>, <<"U+DB40", "U+DC6E">>,
     <<"U+DB40", "U+DC6F">>, <<"U+DB40", "U+DC70">>, <<"U+DB40", "U+DC71">>,
     <<"U+DB40", "U+DC72">>, <<"U+DB40", "U+DC73">>, <<"U+DB40", "U+DC74">>,
     <<"U+DB40", "U+DC75">>, <<"U+DB40", "U+DC76">>, <<"U+DB40", "U+DC77">>,
     <<"U+DB40", "U+DC78">>, <<"U+DB40", "U+DC79">>, <<"U+DB40", "U+DC7A">>,
     <<"U+DB40", "U+DC7B">>, <<"U+DB40", "U+DC7C">>, <<"U+DB40", "U+DC7D">>,
     <<"U+DB40", "U+DC7E">>, <<"U+DB40", "U+DC7F">>, <<"U+DB40", "U+DD00">>,
     <<"U+DB40", "U+DD01">>, <<"U+DB40", "U+DD02">>, <<"U+DB40", "U+DD03">>,
     <<"U+DB40", "U+DD04">>, <<"U+DB40", "U+DD05">>, <<"U+DB40", "U+DD06">>,
     <<"U+DB40", "U+DD07">>, <<"U+DB40", "U+DD08">>, <<"U+DB40", "U+DD09">>,
     <<"U+DB40", "U+DD0A">>, <<"U+DB40", "U+DD0B">>, <<"U+DB40", "U+DD0C">>,
     <<"U+DB40", "U+DD0D">>, <<"U+DB40", "U+DD0E">>, <<"U+DB40", "U+DD0F">>,
     <<"U+DB40", "U+DD10">>, <<"U+DB40", "U+DD11">>, <<"U+DB40", "U+DD12">>,
     <<"U+DB40", "U+DD13">>, <<"U+DB40", "U+DD14">>, <<"U+DB40", "U+DD15">>,
     <<"U+DB40", "U+DD16">>, <<"U+DB40", "U+DD17">>, <<"U+DB40", "U+DD18">>,
     <<"U+DB40", "U+DD19">>, <<"U+DB40", "U+DD1A">>, <<"U+DB40", "U+DD1B">>,
     <<"U+DB40", "U+DD1C">>, <<"U+DB40", "U+DD1D">>, <<"U+DB40", "U+DD1E">>,
     <<"U+DB40", "U+DD1F">>, <<"U+DB40", "U+DD20">>, <<"U+DB40", "U+DD21">>,
     <<"U+DB40", "U+DD22">>, <<"U+DB40", "U+DD23">>, <<"U+DB40", "U+DD24">>,
     <<"U+DB40", "U+DD25">>, <<"U+DB40", "U+DD26">>, <<"U+DB40", "U+DD27">>,
     <<"U+DB40", "U+DD28">>, <<"U+DB40", "U+DD29">>, <<"U+DB40", "U+DD2A">>,
     <<"U+DB40", "U+DD2B">>, <<"U+DB40", "U+DD2C">>, <<"U+DB40", "U+DD2D">>,
     <<"U+DB40", "U+DD2E">>, <<"U+DB40", "U+DD2F">>, <<"U+DB40", "U+DD30">>,
     <<"U+DB40", "U+DD31">>, <<"U+DB40", "U+DD32">>, <<"U+DB40", "U+DD33">>,
     <<"U+DB40", "U+DD34">>, <<"U+DB40", "U+DD35">>, <<"U+DB40", "U+DD36">>,
     <<"U+DB40", "U+DD37">>, <<"U+DB40", "U+DD38">>, <<"U+DB40", "U+DD39">>,
     <<"U+DB40", "U+DD3A">>, <<"U+DB40", "U+DD3B">>, <<"U+DB40", "U+DD3C">>,
     <<"U+DB40", "U+DD3D">>, <<"U+DB40", "U+DD3E">>, <<"U+DB40", "U+DD3F">>,
     <<"U+DB40", "U+DD40">>, <<"U+DB40", "U+DD41">>, <<"U+DB40", "U+DD42">>,
     <<"U+DB40", "U+DD43">>, <<"U+DB40", "U+DD44">>, <<"U+DB40", "U+DD45">>,
     <<"U+DB40", "U+DD46">>, <<"U+DB40", "U+DD47">>, <<"U+DB40", "U+DD48">>,
     <<"U+DB40", "U+DD49">>, <<"U+DB40", "U+DD4A">>, <<"U+DB40", "U+DD4B">>,
     <<"U+DB40", "U+DD4C">>, <<"U+DB40", "U+DD4D">>, <<"U+DB40", "U+DD4E">>,
     <<"U+DB40", "U+DD4F">>, <<"U+DB40", "U+DD50">>, <<"U+DB40", "U+DD51">>,
     <<"U+DB40", "U+DD52">>, <<"U+DB40", "U+DD53">>, <<"U+DB40", "U+DD54">>,
     <<"U+DB40", "U+DD55">>, <<"U+DB40", "U+DD56">>, <<"U+DB40", "U+DD57">>,
     <<"U+DB40", "U+DD58">>, <<"U+DB40", "U+DD59">>, <<"U+DB40", "U+DD5A">>,
     <<"U+DB40", "U+DD5B">>, <<"U+DB40", "U+DD5C">>, <<"U+DB40", "U+DD5D">>,
     <<"U+DB40", "U+DD5E">>, <<"U+DB40", "U+DD5F">>, <<"U+DB40", "U+DD60">>,
     <<"U+DB40", "U+DD61">>, <<"U+DB40", "U+DD62">>, <<"U+DB40", "U+DD63">>,
     <<"U+DB40", "U+DD64">>, <<"U+DB40", "U+DD65">>, <<"U+DB40", "U+DD66">>,
     <<"U+DB40", "U+DD67">>, <<"U+DB40", "U+DD68">>, <<"U+DB40", "U+DD69">>,
     <<"U+DB40", "U+DD6A">>, <<"U+DB40", "U+DD6B">>, <<"U+DB40", "U+DD6C">>,
     <<"U+DB40", "U+DD6D">>, <<"U+DB40", "U+DD6E">>, <<"U+DB40", "U+DD6F">>,
     <<"U+DB40", "U+DD70">>, <<"U+DB40", "U+DD71">>, <<"U+DB40", "U+DD72">>,
     <<"U+DB40", "U+DD73">>, <<"U+DB40", "U+DD74">>, <<"U+DB40", "U+DD75">>,
     <<"U+DB40", "U+DD76">>, <<"U+DB40", "U+DD77">>, <<"U+DB40", "U+DD78">>,
     <<"U+DB40", "U+DD79">>, <<"U+DB40", "U+DD7A">>, <<"U+DB40", "U+DD7B">>,
     <<"U+DB40", "U+DD7C">>, <<"U+DB40", "U+DD7D">>, <<"U+DB40", "U+DD7E">>,
     <<"U+DB40", "U+DD7F">>, <<"U+DB40", "U+DD80">>, <<"U+DB40", "U+DD81">>,
     <<"U+DB40", "U+DD82">>, <<"U+DB40", "U+DD83">>, <<"U+DB40", "U+DD84">>,
     <<"U+DB40", "U+DD85">>, <<"U+DB40", "U+DD86">>, <<"U+DB40", "U+DD87">>,
     <<"U+DB40", "U+DD88">>, <<"U+DB40", "U+DD89">>, <<"U+DB40", "U+DD8A">>,
     <<"U+DB40", "U+DD8B">>, <<"U+DB40", "U+DD8C">>, <<"U+DB40", "U+DD8D">>,
     <<"U+DB40", "U+DD8E">>, <<"U+DB40", "U+DD8F">>, <<"U+DB40", "U+DD90">>,
     <<"U+DB40", "U+DD91">>, <<"U+DB40", "U+DD92">>, <<"U+DB40", "U+DD93">>,
     <<"U+DB40", "U+DD94">>, <<"U+DB40", "U+DD95">>, <<"U+DB40", "U+DD96">>,
     <<"U+DB40", "U+DD97">>, <<"U+DB40", "U+DD98">>, <<"U+DB40", "U+DD99">>,
     <<"U+DB40", "U+DD9A">>, <<"U+DB40", "U+DD9B">>, <<"U+DB40", "U+DD9C">>,
     <<"U+DB40", "U+DD9D">>, <<"U+DB40", "U+DD9E">>, <<"U+DB40", "U+DD9F">>,
     <<"U+DB40", "U+DDA0">>, <<"U+DB40", "U+DDA1">>, <<"U+DB40", "U+DDA2">>,
     <<"U+DB40", "U+DDA3">>, <<"U+DB40", "U+DDA4">>, <<"U+DB40", "U+DDA5">>,
     <<"U+DB40", "U+DDA6">>, <<"U+DB40", "U+DDA7">>, <<"U+DB40", "U+DDA8">>,
     <<"U+DB40", "U+DDA9">>, <<"U+DB40", "U+DDAA">>, <<"U+DB40", "U+DDAB">>,
     <<"U+DB40", "U+DDAC">>, <<"U+DB40", "U+DDAD">>, <<"U+DB40", "U+DDAE">>,
     <<"U+DB40", "U+DDAF">>, <<"U+DB40", "U+DDB0">>, <<"U+DB40", "U+DDB1">>,
     <<"U+DB40", "U+DDB2">>, <<"U+DB40", "U+DDB3">>, <<"U+DB40", "U+DDB4">>,
     <<"U+DB40", "U+DDB5">>, <<"U+DB40", "U+DDB6">>, <<"U+DB40", "U+DDB7">>,
     <<"U+DB40", "U+DDB8">>, <<"U+DB40", "U+DDB9">>, <<"U+DB40", "U+DDBA">>,
     <<"U+DB40", "U+DDBB">>, <<"U+DB40", "U+DDBC">>, <<"U+DB40", "U+DDBD">>,
     <<"U+DB40", "U+DDBE">>, <<"U+DB40", "U+DDBF">>, <<"U+DB40", "U+DDC0">>,
     <<"U+DB40", "U+DDC1">>, <<"U+DB40", "U+DDC2">>, <<"U+DB40", "U+DDC3">>,
     <<"U+DB40", "U+DDC4">>, <<"U+DB40", "U+DDC5">>, <<"U+DB40", "U+DDC6">>,
     <<"U+DB40", "U+DDC7">>, <<"U+DB40", "U+DDC8">>, <<"U+DB40", "U+DDC9">>,
     <<"U+DB40", "U+DDCA">>, <<"U+DB40", "U+DDCB">>, <<"U+DB40", "U+DDCC">>,
     <<"U+DB40", "U+DDCD">>, <<"U+DB40", "U+DDCE">>, <<"U+DB40", "U+DDCF">>,
     <<"U+DB40", "U+DDD0">>, <<"U+DB40", "U+DDD1">>, <<"U+DB40", "U+DDD2">>,
     <<"U+DB40", "U+DDD3">>, <<"U+DB40", "U+DDD4">>, <<"U+DB40", "U+DDD5">>,
     <<"U+DB40", "U+DDD6">>, <<"U+DB40", "U+DDD7">>, <<"U+DB40", "U+DDD8">>,
     <<"U+DB40", "U+DDD9">>, <<"U+DB40", "U+DDDA">>, <<"U+DB40", "U+DDDB">>,
     <<"U+DB40", "U+DDDC">>, <<"U+DB40", "U+DDDD">>, <<"U+DB40", "U+DDDE">>,
     <<"U+DB40", "U+DDDF">>, <<"U+DB40", "U+DDE0">>, <<"U+DB40", "U+DDE1">>,
     <<"U+DB40", "U+DDE2">>, <<"U+DB40", "U+DDE3">>, <<"U+DB40", "U+DDE4">>,
     <<"U+DB40", "U+DDE5">>, <<"U+DB40", "U+DDE6">>, <<"U+DB40", "U+DDE7">>,
     <<"U+DB40", "U+DDE8">>, <<"U+DB40", "U+DDE9">>, <<"U+DB40", "U+DDEA">>,
     <<"U+DB40", "U+DDEB">>, <<"U+DB40", "U+DDEC">>, <<"U+DB40", "U+DDED">>,
     <<"U+DB40", "U+DDEE">>, <<"U+DB40", "U+DDEF">>
    }

\* the characters of s from code unit k on: each is a sequence of one code
\* unit, or of the two code units of a surrogate pair
RECURSIVE CodePointsFrom(_, _)
CodePointsFrom(s, k) ==
    IF k > Len(s) THEN <<>>
    ELSE IF k < Len(s) /\ s[k] \in HighSurrogates /\ s[k + 1] \in LowSurrogates
    THEN <<SubSeq(s, k, k + 1)>> \o CodePointsFrom(s, k + 2)
    ELSE <<SubSeq(s, k, k)>> \o CodePointsFrom(s, k + 1)

IsCased(p) == IF Len(p) = 1 THEN p[1] \in Cased ELSE p \in CasedPairs

IsCaseIgnorable(p) == IF Len(p) = 1 THEN p[1] \in CaseIgnorable ELSE p \in CaseIgnorablePairs

\* the capital sigma that is character k of ps is final: a cased letter comes
\* before it and none after it, case-ignorable characters skipped
FinalSigma(ps, k) ==
    /\ \E j \in 1..(k - 1) :
          IsCased(ps[j]) /\ \A m \in (j + 1)..(k - 1) : IsCaseIgnorable(ps[m])
    /\ ~\E j \in (k + 1)..Len(ps) :
          IsCased(ps[j]) /\ \A m \in (k + 1)..(j - 1) : IsCaseIgnorable(ps[m])

\* the lower case of character k of ps
LowerAt(ps, k) ==
    LET p == ps[k] IN
    IF p = <<"U+03A3">> /\ FinalSigma(ps, k) THEN <<"U+03C2">>
    ELSE IF Len(p) = 1 /\ p[1] \in DOMAIN UpperLetters THEN UpperLetters[p[1]]
    ELSE IF Len(p) = 2 /\ p \in DOMAIN UpperPairs THEN UpperPairs[p]
    ELSE p

RECURSIVE LowerFrom(_, _)
LowerFrom(ps, k) == IF k > Len(ps) THEN <<>> ELSE LowerAt(ps, k) \o LowerFrom(ps, k + 1)

\* String.prototype.toLowerCase: every cased character, and the result can be
\* longer than the string
toLowerCase(s) == LowerFrom(CodePointsFrom(s, 1), 1)

\* the characters \s of a regular expression matches; those that have no
\* escape in a string here go by their code point
WhiteSpace ==
    {" ", "\t", "\n", "\r", "\f", "U+000B", "U+00A0", "U+1680", "U+2000", "U+2001",
     "U+2002", "U+2003", "U+2004", "U+2005", "U+2006", "U+2007", "U+2008", "U+2009",
     "U+200A", "U+2028", "U+2029", "U+202F", "U+205F", "U+3000", "U+FEFF"}

\* emailRegex.test: /^[^\s@]+@[^\s@]+\.[^\s@]+$/
emailRegexTest(s) ==
    \E at \in DOMAIN s :
        /\ s[at] = "@"
        /\ at > 1
        /\ \A k \in DOMAIN s : (k # at) => s[k] \notin ({"@"} \cup WhiteSpace)
        /\ \E dot \in DOMAIN s : s[dot] = "." /\ dot > at + 1 /\ dot < Len(s)

saltRounds == 12

\* bcrypt.hash(password, saltRounds)
bcryptHash(password) == [alg |-> "bcrypt", cost |-> saltRounds, of |-> password]

\* bcrypt.compare(password, hash): "throws" when the hash is not a string
bcryptCompare(password, hash) ==
    IF hash = NULL THEN "throws"
    ELSE IF ValueOf(hash).of = password THEN "match" ELSE "mismatch"

TokenDays == 7

\* env.JWT_SECRET || 'your-secret-key', and any other key
JWT_SECRET == "JWT_SECRET"
OtherSecret == "other"

\* jwt.sign({userId, email}, secret, {expiresIn: '7d'})
jwtSign(userId, email) ==
    [userId |-> userId, email |-> email, iat |-> now, exp |-> now + TokenDays,
     secret |-> JWT_SECRET]

\* a verification that does not look at exp
jwtVerifyIgnoringExpiry(token) ==
    IF token.secret # JWT_SECRET THEN "throws" ELSE "decoded"

\* jwt.verify(token, secret): throws JsonWebTokenError for another signature
\* and TokenExpiredError once the clock has reached exp
jwtVerify(token) ==
    IF token.secret # JWT_SECRET \/ now >= token.exp THEN "throws" ELSE "decoded"

----------------------------------------------------------------------------
(* The store: D1 statements *)

\* schema.sql: the two admin rows inserted when the schema is applied
AdminUsers ==
    << [email |-> eJohn, first_name |-> "John", last_name |-> "Admin",
        password_hash |-> NULL, square_customer_id |-> NULL,
        subscription_active |-> TRUE],
       [email |-> eChristine, first_name |-> "Christine", last_name |-> "Admin",
        password_hash |-> NULL, square_customer_id |-> NULL,
        subscription_active |-> TRUE] >>

UserIds == DOMAIN users

\* SELECT ... FROM users WHERE email = ?  (BINARY collation: exact match)
SelectUserByEmail(email) ==
    IF \E id \in UserIds : users[id].email = email
    THEN CHOOSE id \in UserIds : users[id].email = email
    ELSE 0

\* users.email is UNIQUE
EmailTaken(email) == \E id \in UserIds : users[id].email = email

\* a row of users as INSERT leaves it: subscription_active DEFAULT false
NewUserRow(email, firstName, lastName, passwordHash) ==
    [email |-> email, first_name |-> firstName, last_name |-> lastName,
     password_hash |-> passwordHash, square_customer_id |-> NULL,
     subscription_active |-> FALSE]

\* a table without the constraint
SessionTokenNeverTaken(tok) == FALSE

\* user_sessions.session_token is UNIQUE
SessionTokenTaken(tok) == \E k \in DOMAIN sessions : sessions[k].session_token = tok

\* a session that expires the day after it is created
NewSessionRowOneDay(userId, tok) ==
    [user_id |-> userId, session_token |-> tok, expires_at |-> now + 1]

\* INSERT INTO user_sessions ... datetime('now', '+7 days')
NewSessionRow(userId, tok) ==
    [user_id |-> userId, session_token |-> tok, expires_at |-> now + TokenDays]

\* the session row together with what the Response that carries its
\* session_token gives the client: the token and the user's flag (these two
\* are no columns of user_sessions)
Issued(row, token, subscriptionActive) ==
    row @@ [issued |-> [token |-> token, subscriptionActive |-> subscriptionActive]]

\* SELECT ... FROM subscriptions WHERE user_id = ? AND status = 'ACTIVE'
ActiveSubsOf(userId) ==
    {k \in DOMAIN subscriptions :
        subscriptions[k].user_id = userId /\ subscriptions[k].status = "ACTIVE"}

\* .first() of that SELECT
FirstActiveSubOf(userId) ==
    IF ActiveSubsOf(userId) = {} THEN 0
    ELSE CHOOSE k \in ActiveSubsOf(userId) : \A j \in ActiveSubsOf(userId) : k <= j

----------------------------------------------------------------------------
(* Requests between two awaits *)

InFlight == DOMAIN reqs

PcCount(pcs) == Cardinality({i \in InFlight : reqs[i].pc \in pcs})

\* rows and gateway objects that requests already past their checks are still
\* going to create
PendingUsers == PcCount({"reg_insert_user", "cs_select_user", "cs_insert_user"})
PendingSessions == PcCount({"reg_insert_user", "reg_insert_session", "login_update",
                            "login_session"})
PendingCustomers == PcCount({"cs_select_user", "cs_select_active", "cs_insert_user",
                             "cs_customer"})
PendingGwSubs == PendingCustomers + PcCount({"cs_save_customer", "cs_gw_sub"})
PendingPayments == PcCount({"pm_activate", "pm_insert", "pf_insert"})

Accepting == Len(reqs) < MaxInflight
RoomForUser == Len(users) - Len(AdminUsers) + PendingUsers < MaxNewUsers
RoomForSession == Len(sessions) + PendingSessions < MaxSessions
RoomForSub == Len(gwSubs) + PendingGwSubs < MaxSubs
RoomForCustomer == gwCustomers + PendingCustomers < MaxCustomers
RoomForPayment == Len(payments) + PendingPayments < MaxPayments

NoResp == [op |-> "none", status |-> 0]

Without(s, i) == [k \in 1..(Len(s) - 1) |-> IF k < i THEN s[k] ELSE s[k + 1]]

\* token: of the body of a Response, when it has one
TokensOf(r) == IF "token" \in DOMAIN r THEN {r.token} ELSE {}

\* a handler returns its Response before its first await returns control
Reply(r) ==
    /\ Accepting
    /\ reqs' = reqs
    /\ resp' = r
    /\ clientTokens' = clientTokens \cup TokensOf(r)

\* a handler reaches its second await
Await(r) ==
    /\ Accepting
    /\ reqs' = Append(reqs, r)
    /\ resp' = NoResp
    /\ UNCHANGED clientTokens

\* a handler goes on to its next await
Continue(i, r) ==
    /\ reqs' = [reqs EXCEPT ![i] = r]
    /\ resp' = NoResp
    /\ UNCHANGED clientTokens

\* a handler returns its Response
Respond(i, r) ==
    /\ reqs' = Without(reqs, i)
    /\ resp' = r
    /\ clientTokens' = clientTokens \cup TokensOf(r)

\* crypto.randomUUID(): a value no row holds (the next unused one) or, with
\* negligible probability, one that a row already holds
SessionTokens == 1..(Len(sessions) + 1)

----------------------------------------------------------------------------
(* auth.js: handleUserRegistration *)

\* requiredFields.filter(field => !userData[field])
RegisterMissing(in) ==
    {f \in {"email", "firstName", "lastName", "password"} :
        \/ f = "email" /\ in.email = eEmpty
        \/ f = "firstName" /\ in.firstName = ""
        \/ f = "lastName" /\ in.lastName = ""
        \/ f = "password" /\ in.password = pwEmpty}

\* fault: the store made a statement of this request fail;
\* uniqueViolation: the INSERT was rejected by UNIQUE (email)
RegisterError(status, error, in, fault) ==
    [op |-> "register", status |-> status, error |-> error, in |-> in,
     fault |-> fault, uniqueViolation |-> FALSE]

\* the email as the request gave it
RegisterEmailAsGiven(email) == email

\* the email the service stores and looks up
RegisterEmail(email) == toLowerCase(email)

\* the Response to an INSERT INTO users that UNIQUE (email) rejected: the
\* rejection is thrown and reaches the outer catch
RegisterUniqueViolation(in) ==
    [RegisterError(500, "Internal server error", in, FALSE) EXCEPT !.uniqueViolation = TRUE]

\* request.json(), validation, SELECT id FROM users WHERE email = ?
RegisterCheck(in, dbFails) ==
    /\ UNCHANGED <<store, gateway, now>>
    /\ IF RegisterMissing(in) # {}
       THEN ~dbFails /\ Reply(RegisterError(400, "Missing required fields", in, FALSE))
       ELSE IF ~emailRegexTest(in.email)
       THEN ~dbFails /\ Reply(RegisterError(400, "Invalid email format", in, FALSE))
       ELSE IF Len(in.password) < 8
       THEN ~dbFails /\ Reply(RegisterError(400, "Password must be at least 8 characters long", in, FALSE))
       ELSE IF dbFails
       THEN Reply(RegisterError(500, "Internal server error", in, TRUE))
       ELSE IF SelectUserByEmail(RegisterEmail(in.email)) # 0
       THEN Reply(RegisterError(409, "User already exists with this email", in, FALSE))
       ELSE /\ RoomForUser /\ RoomForSession
            /\ Await([pc |-> "reg_insert_user", op |-> "register", in |-> in])

\* bcrypt.hash, INSERT INTO users ... RETURNING id, email, ...; jwt.sign
RegisterInsertUser(i, dbFails) ==
    LET r == reqs[i]
        email == RegisterEmail(r.in.email)
        row == NewUserRow(email, r.in.firstName, r.in.lastName, Some(bcryptHash(r.in.password)))
        userId == Len(users) + 1
    IN
    /\ r.pc = "reg_insert_user"
    /\ UNCHANGED <<subscriptions, payments, sessions, gateway, now>>
    /\ IF dbFails
       THEN /\ UNCHANGED users
            /\ Respond(i, RegisterError(500, "Internal server error", r.in, TRUE))
       ELSE IF EmailTaken(email)
       THEN /\ UNCHANGED users
            /\ Respond(i, RegisterUniqueViolation(r.in))
       ELSE /\ users' = Append(users, row)
            /\ Continue(i, [pc |-> "reg_insert_session", op |-> "register", in |-> r.in,
                            userId |-> userId, email |-> email,
                            token |-> jwtSign(userId, email)])

\* crypto.randomUUID, INSERT INTO user_sessions, 201
RegisterInsertSession(i, sessionToken, dbFails) ==
    LET r == reqs[i] IN
    /\ r.pc = "reg_insert_session"
    /\ UNCHANGED <<users, subscriptions, payments, gateway, now>>
    /\ IF dbFails \/ SessionTokenTaken(sessionToken)
       THEN /\ UNCHANGED sessions
            /\ Respond(i, RegisterError(500, "Internal server error", r.in, TRUE))
       ELSE /\ sessions' = Append(sessions,
                    Issued(NewSessionRow(r.userId, sessionToken), r.token, FALSE))
            /\ Respond(i, [op |-> "register", status |-> 201, error |-> NoError,
                           in |-> r.in, fault |-> FALSE,
                           uniqueViolation |-> FALSE,
                           user |-> [id |-> r.userId, email |-> r.email,
                                     subscriptionActive |-> FALSE],
                           token |-> r.token,
                           sessionToken |-> sessionToken])

----------------------------------------------------------------------------
(* auth.js: handleUserLogin *)

LoginError(status, error, in, fault) ==
    [op |-> "login", status |-> status, error |-> error, in |-> in, fault |-> fault]

\* the email the service looks up
LoginEmail(email) == toLowerCase(email)

\* if (!user) return 401
LoginUnknownEmail(in) == LoginError(401, "Invalid email or password", in, FALSE)

\* if (!passwordValid) return 401
LoginWrongPassword(in) == LoginError(401, "Invalid email or password", in, FALSE)

\* request.json(), SELECT ... FROM users WHERE email = ?, bcrypt.compare
LoginCheck(in, dbFails) ==
    LET id == SelectUserByEmail(LoginEmail(in.email)) IN
    /\ UNCHANGED <<store, gateway, now>>
    /\ IF in.email = eEmpty \/ in.password = pwEmpty
       THEN ~dbFails /\ Reply(LoginError(400, "Email and password are required", in, FALSE))
       ELSE IF dbFails
       THEN Reply(LoginError(500, "Internal server error", in, TRUE))
       ELSE IF id = 0
       THEN Reply(LoginUnknownEmail(in))
       ELSE IF bcryptCompare(in.password, users[id].password_hash) = "throws"
       THEN Reply(LoginError(500, "Internal server error", in, FALSE))
       ELSE IF bcryptCompare(in.password, users[id].password_hash) = "mismatch"
       THEN Reply(LoginWrongPassword(in))
       ELSE /\ RoomForSession
            /\ Await([pc |-> "login_update", op |-> "login", in |-> in, userId |-> id,
                      email |-> users[id].email,
                      subscriptionActive |-> users[id].subscription_active])

\* UPDATE users SET last_login_at = datetime("now") WHERE id = ?; jwt.sign
LoginUpdate(i, dbFails) ==
    LET r == reqs[i] IN
    /\ r.pc = "login_update"
    /\ UNCHANGED <<store, gateway, now>>
    /\ IF dbFails
       THEN Respond(i, LoginError(500, "Internal server error", r.in, TRUE))
       ELSE Continue(i, [pc |-> "login_session", op |-> "login", in |-> r.in,
                         userId |-> r.userId, email |-> r.email,
                         subscriptionActive |-> r.subscriptionActive,
                         token |-> jwtSign(r.userId, r.email)])

\* crypto.randomUUID, INSERT INTO user_sessions
LoginInsertSession(i, sessionToken, dbFails) ==
    LET r == reqs[i] IN
    /\ r.pc = "login_session"
    /\ UNCHANGED <<users, subscriptions, payments, gateway, now>>
    /\ IF dbFails \/ SessionTokenTaken(sessionToken)
       THEN /\ UNCHANGED sessions
            /\ Respond(i, LoginError(500, "Internal server error", r.in, TRUE))
       ELSE /\ sessions' = Append(sessions,
                    Issued(NewSessionRow(r.userId, sessionToken), r.token,
                           r.subscriptionActive))
            /\ Continue(i, [pc |-> "login_sub", op |-> "login", in |-> r.in,
                            userId |-> r.userId, email |-> r.email,
                            subscriptionActive |-> r.subscriptionActive,
                            token |-> r.token, sessionToken |-> sessionToken])

\* SELECT plan_type, status, frequency FROM subscriptions WHERE user_id = ?
\* AND status = "ACTIVE", 200
LoginSelectSubscription(i, dbFails) ==
    LET r == reqs[i]
        k == FirstActiveSubOf(r.userId)
    IN
    /\ r.pc = "login_sub"
    /\ UNCHANGED <<store, gateway, now>>
    /\ IF dbFails
       THEN Respond(i, LoginError(500, "Internal server error", r.in, TRUE))
       ELSE Respond(i, [op |-> "login", status |-> 200, error |-> NoError,
                        in |-> r.in, fault |-> FALSE,
                        user |-> [id |-> r.userId, email |-> r.email,
                                  subscriptionActive |-> r.subscriptionActive,
                                  subscription |->
                                      IF k = 0 THEN NULL
                                      ELSE Some([planType |-> subscriptions[k].plan_type,
                                                 frequency |-> subscriptions[k].frequency,
                                                 status |-> subscriptions[k].status])],
                        token |-> r.token, sessionToken |-> r.sessionToken])

----------------------------------------------------------------------------
(* auth.js: verifyUserToken *)

\* the tokens that clients hold: those the Responses of register and login
\* carried
IssuedTokens == clientTokens

\* a token the service signed for a user whose row is not in the table
OrphanToken == jwtSign(0, eOther)

\* the Authorization headers sent to /api/auth/verify: none, or Bearer with a
\* token a client holds, the same token signed with another key, or the
\* token of a missing user
VerifyHeaders ==
    {NULL}
    \cup {Some(t) : t \in IssuedTokens}
    \cup {Some([t EXCEPT !.secret = OtherSecret]) : t \in IssuedTokens}
    \cup {Some(OrphanToken)}

VerifyResp(status, error, header, fault) ==
    [op |-> "verify", status |-> status, error |-> error, header |-> header, fault |-> fault]

\* the flag the client was given with the token
VerifyFlagAtIssue(token) ==
    LET k == CHOOSE k \in DOMAIN sessions : sessions[k].issued.token = token
    IN sessions[k].issued.subscriptionActive

\* subscriptionActive: user.subscription_active of the row just selected
VerifyFlag(token) == users[token.userId].subscription_active

\* verifyUserToken: header, jwt.verify, SELECT ... FROM users WHERE id = ?
Verify(header, dbFails) ==
    /\ UNCHANGED <<store, gateway, now>>
    /\ IF header = NULL
       THEN ~dbFails /\ Reply(VerifyResp(401, "No valid authorization token provided", header, FALSE))
       ELSE IF jwtVerify(ValueOf(header)) = "throws"
       THEN ~dbFails /\ Reply(VerifyResp(401, "Invalid or expired token", header, FALSE))
       ELSE IF dbFails
       THEN Reply(VerifyResp(500, "Internal server error", header, TRUE))
       ELSE IF ValueOf(header).userId \notin UserIds
       THEN Reply(VerifyResp(404, "User not found", header, FALSE))
       ELSE Reply([op |-> "verify", status |-> 200, error |-> NoError, header |-> header,
                   fault |-> FALSE,
                   user |-> [id |-> ValueOf(header).userId,
                             email |-> users[ValueOf(header).userId].email,
                             subscriptionActive |-> VerifyFlag(ValueOf(header))]])

\* a day passes
Tick ==
    /\ now < MaxNow
    /\ now' = now + 1
    /\ resp' = NoResp
    /\ UNCHANGED <<store, gateway, reqs, clientTokens>>

----------------------------------------------------------------------------
(* create-subscription.js: onRequestPost *)

CreateSubMissing(in) ==
    {f \in {"email", "firstName", "lastName", "planType", "paymentToken"} :
        \/ f = "email" /\ in.email = eEmpty
        \/ f = "firstName" /\ in.firstName = ""
        \/ f = "lastName" /\ in.lastName = ""
        \/ f = "planType" /\ in.planType = ""
        \/ f = "paymentToken" /\ in.paymentToken = ""}

\* what the request has done so far: the user it resolved or inserted, whether
\* its SELECTs ran, the gateway objects it created, whether it stored the
\* customer id, the row it inserted, the gateway call that failed
NoEffects == [userId |-> 0, checked |-> FALSE, insertedUser |-> FALSE, customerId |-> 0,
              savedCustomer |-> FALSE, gwSubId |-> 0, insertedSub |-> FALSE,
              insertFailed |-> FALSE, failedCall |-> "none"]

\* the did of a request that ends because a call to the gateway failed
FailedAt(did, call) == [did EXCEPT !.failedCall = call]

\* a catch that takes back the customer id the request stored
CreateSubAbortClearsCustomer(us, did) ==
    IF did.userId \in DOMAIN us
    THEN [us EXCEPT ![did.userId].square_customer_id = NULL]
    ELSE us

\* the user rows once the throw has reached the catch of onRequestPost: the
\* catch builds the 500 and undoes nothing
CreateSubAbort(us, did) == us

CreateSubError(status, error, in, did) ==
    [op |-> "createSubscription", status |-> status, error |-> error, in |-> in, did |-> did]

\* the email the service looks up and stores: requestData.email
CreateSubEmail(email) == email

\* the subscription_active value of the user once the subscription row is
\* stored: no statement of the handler writes the column
CreateSubFlag(old) == old

\* a check that only rejects a second subscription to the same plan
\* if (activeSubscription): whether the rows found reject the request
AlreadyActive(in, found) == found # {}

\* the Response once the local INSERT has thrown: the catch only logs
CreateSubInsertFailed(ok) == ok

\* request.json(), validation, getSquareLocation
CreateSubCheck(in, location) ==
    /\ UNCHANGED <<store, gateway, now>>
    /\ IF CreateSubMissing(in) # {}
       THEN /\ location = "active"
            /\ Reply(CreateSubError(400, "Missing required fields", in, NoEffects))
       ELSE IF ~PlanFound(in.planType)
       THEN /\ location = "active"
            /\ Reply(CreateSubError(400, "Invalid plan type", in, NoEffects))
       ELSE IF location = "fail"
       THEN Reply(CreateSubError(500, "Failed to get Square location", in,
                                 FailedAt(NoEffects, "location")))
       ELSE IF location = "none"
       THEN Reply(CreateSubError(500, "TypeError", in, NoEffects))
       ELSE /\ (SelectUserByEmail(CreateSubEmail(in.email)) = 0) => RoomForUser
            /\ RoomForSub /\ RoomForCustomer
            /\ Await([pc |-> "cs_select_user", op |-> "createSubscription", in |-> in,
                      did |-> NoEffects])

\* SELECT id, square_customer_id FROM users WHERE email = ?; a failure is
\* caught and logged, and userId stays undefined
CreateSubSelectUser(i, dbFails) ==
    LET r == reqs[i]
        id == IF dbFails THEN 0 ELSE SelectUserByEmail(CreateSubEmail(r.in.email))
    IN
    /\ r.pc = "cs_select_user"
    /\ UNCHANGED <<store, gateway, now>>
    /\ IF id = 0
       THEN Continue(i, [r EXCEPT !.pc = "cs_insert_user", !.did.checked = ~dbFails])
       ELSE Continue(i, [r EXCEPT !.pc = "cs_select_active", !.did.userId = id])

\* SELECT * FROM subscriptions WHERE user_id = ? AND status = 'ACTIVE'; a
\* failure is caught and logged, and the request goes on with its userId
CreateSubSelectActive(i, dbFails) ==
    LET r == reqs[i] IN
    /\ r.pc = "cs_select_active"
    /\ UNCHANGED <<store, gateway, now>>
    /\ IF ~dbFails /\ AlreadyActive(r.in, ActiveSubsOf(r.did.userId))
       THEN Respond(i, CreateSubError(409, "User already has an active subscription", r.in,
                                      [r.did EXCEPT !.checked = TRUE]))
       ELSE Continue(i, [r EXCEPT !.pc = "cs_customer", !.did.checked = ~dbFails])

\* INSERT INTO users (email, first_name, last_name, created_at) ... RETURNING id
CreateSubInsertUser(i, dbFails) ==
    LET r == reqs[i]
        email == CreateSubEmail(r.in.email)
    IN
    /\ r.pc = "cs_insert_user"
    /\ UNCHANGED <<subscriptions, payments, sessions, gateway, now>>
    /\ IF dbFails \/ EmailTaken(email)
       THEN /\ UNCHANGED users
            /\ Respond(i, CreateSubError(500, "Failed to create user account", r.in, r.did))
       ELSE /\ users' = Append(users, NewUserRow(email, r.in.firstName, r.in.lastName, NULL))
            /\ Continue(i, [r EXCEPT !.pc = "cs_customer",
                                     !.did.userId = Len(users) + 1,
                                     !.did.insertedUser = TRUE])

\* createSquareCustomer
CreateSubCustomer(i, customerOk) ==
    LET r == reqs[i]
        customerId == gwCustomers + 1
    IN
    /\ r.pc = "cs_customer"
    /\ UNCHANGED <<subscriptions, payments, sessions, gwSubs, now>>
    /\ IF ~customerOk
       THEN /\ UNCHANGED gwCustomers
            /\ users' = CreateSubAbort(users, r.did)
            /\ Respond(i, CreateSubError(500, "Failed to create Square customer", r.in,
                                         FailedAt(r.did, "customer")))
       ELSE /\ gwCustomers' = customerId
            /\ UNCHANGED users
            /\ Continue(i, [r EXCEPT !.pc = "cs_save_customer",
                                     !.did.customerId = customerId])

\* UPDATE users SET square_customer_id = ? WHERE id = ?; a failure is caught
\* and logged
CreateSubSaveCustomer(i, dbFails) ==
    LET r == reqs[i] IN
    /\ r.pc = "cs_save_customer"
    /\ UNCHANGED <<subscriptions, payments, sessions, gateway, now>>
    /\ users' = IF dbFails THEN users
                ELSE [users EXCEPT ![r.did.userId].square_customer_id = Some(r.did.customerId)]
    /\ Continue(i, [r EXCEPT !.pc = "cs_gw_sub", !.did.savedCustomer = ~dbFails])

\* the row INSERT INTO subscriptions binds: status 'ACTIVE', the local price
NewSubscriptionRow(userId, gwSubId, planType) ==
    [user_id |-> userId, square_subscription_id |-> gwSubId, plan_type |-> planType,
     status |-> "ACTIVE", price_amount |-> PlanInfo(planType).price, currency |-> "GBP",
     frequency |-> PlanInfo(planType).frequency, ended_at |-> NULL]

\* the 201 of onRequestPost; gwStatus is subscription.status of the
\* gateway's answer
CreateSubCreated(in, did, gwStatus) ==
    [op |-> "createSubscription", status |-> 201, error |-> NoError,
     in |-> in, did |-> did,
     subscription |-> [id |-> did.gwSubId, planType |-> in.planType,
                       planName |-> PlanInfo(in.planType).planName,
                       frequency |-> PlanInfo(in.planType).frequency,
                       price |-> PlanInfo(in.planType).price, currency |-> "GBP",
                       status |-> gwStatus],
     user |-> [id |-> did.userId, email |-> in.email,
               squareCustomerId |-> did.customerId]]

\* createSubscription at the gateway; then .bind(...) of the INSERT, which
\* throws at once, into the catch that only logs, when the store rejects the
\* undefined price and frequency of an inherited member
CreateSubGateway(i, subscriptionOk, gwStatus, undefinedBind) ==
    LET r == reqs[i]
        did == [r.did EXCEPT !.gwSubId = Len(gwSubs) + 1]
        bindThrows == r.in.planType \notin PlanTypes /\ undefinedBind = "throws"
    IN
    /\ r.pc = "cs_gw_sub"
    /\ UNCHANGED <<subscriptions, payments, sessions, gwCustomers, now>>
    /\ IF ~subscriptionOk
       THEN /\ gwStatus = "ACTIVE" /\ undefinedBind = "null"
            /\ UNCHANGED gwSubs
            /\ users' = CreateSubAbort(users, r.did)
            /\ Respond(i, CreateSubError(500, "Failed to create subscription", r.in,
                                         FailedAt(r.did, "subscription")))
       ELSE /\ gwSubs' = Append(gwSubs, [customerId |-> r.did.customerId])
            /\ UNCHANGED users
            /\ IF bindThrows
               THEN Respond(i, CreateSubInsertFailed(
                                  CreateSubCreated(r.in, [did EXCEPT !.insertFailed = TRUE],
                                                   gwStatus)))
               ELSE /\ (r.in.planType \in PlanTypes) => (undefinedBind = "null")
                    /\ Continue(i, [pc |-> "cs_insert_sub", op |-> "createSubscription",
                                    in |-> r.in, did |-> did, gwStatus |-> gwStatus])

\* INSERT INTO subscriptions ..., 201; price_amount and frequency are NOT
\* NULL, so the row of an inherited member is rejected
CreateSubInsert(i, dbFails) ==
    LET r == reqs[i]
        rejected == dbFails \/ r.in.planType \notin PlanTypes
        did == [r.did EXCEPT !.insertedSub = ~rejected, !.insertFailed = rejected]
        ok == CreateSubCreated(r.in, did, r.gwStatus)
    IN
    /\ r.pc = "cs_insert_sub"
    /\ UNCHANGED <<payments, sessions, gateway, now>>
    /\ IF rejected
       THEN /\ UNCHANGED <<users, subscriptions>>
            /\ Respond(i, CreateSubInsertFailed(ok))
       ELSE /\ subscriptions' = Append(subscriptions,
                    NewSubscriptionRow(r.did.userId, r.did.gwSubId, r.in.planType))
            /\ users' = [users EXCEPT ![r.did.userId].subscription_active = CreateSubFlag(@)]
            /\ Respond(i, ok)

----------------------------------------------------------------------------
(* square-webhook.js: onRequestPost and the four handlers *)

\* the deliveries the gateway can post about the subscriptions it holds
SubscriptionEvents(type) ==
    {[type |-> type, id |-> k, customerId |-> gwSubs[k].customerId, status |-> st] :
        k \in DOMAIN gwSubs, st \in WebhookStatuses}

InvoiceEvents(type) ==
    {[type |-> type, subscriptionId |-> k, invoice |-> inv] :
        k \in DOMAIN gwSubs, inv \in Invoices}

\* the deliveries that reach no handler or whose handler reads nothing: no
\* x-square-signature header; a body that is no JSON; the JSON text null; a
\* type without a handler; a handled type without data.object
BadDeliveries ==
    {"no signature", "invalid json", "null body", "unhandled type", "no data object"}

\* fault: the store made a statement of this delivery fail
WebhookResp(status, error, ev, fault) ==
    [op |-> "webhook", status |-> status, error |-> error, ev |-> ev, fault |-> fault]

\* the rows WHERE square_subscription_id = ? selects
SubsWithGwId(gwSubId) ==
    {k \in DOMAIN subscriptions : subscriptions[k].square_subscription_id = gwSubId}

\* SELECT user_id FROM subscriptions WHERE square_subscription_id = ?  .first()
SelectSubByGwId(gwSubId) ==
    IF SubsWithGwId(gwSubId) = {} THEN 0 ELSE CHOOSE k \in SubsWithGwId(gwSubId) : TRUE

\* SELECT id FROM users WHERE square_customer_id = ?
SelectUserByCustomer(customerId) ==
    IF \E id \in UserIds : users[id].square_customer_id = Some(customerId)
    THEN CHOOSE id \in UserIds : users[id].square_customer_id = Some(customerId)
    ELSE 0

\* onRequestPost: the deliveries that reach no handler (webhookEvent.type of
\* null throws into the catch of onRequestPost), or whose handler throws on
\* webhookEvent.data.object into its own catch
WebhookBad(kind) ==
    /\ UNCHANGED <<store, gateway, now>>
    /\ Reply(CASE kind = "no signature" ->
                    WebhookResp(400, "Missing webhook signature", [type |-> kind], FALSE)
               [] kind = "invalid json" ->
                    WebhookResp(400, "Invalid JSON in webhook body", [type |-> kind], FALSE)
               [] kind = "null body" ->
                    WebhookResp(500, "Internal server error", [type |-> kind], FALSE)
               [] kind = "unhandled type" ->
                    WebhookResp(200, NoError, [type |-> kind], FALSE)
               [] kind = "no data object" ->
                    WebhookResp(500, "TypeError", [type |-> kind], FALSE))

\* handleSubscriptionCreatedWebhook: SELECT id FROM users WHERE square_customer_id = ?
SubCreatedSelect(ev, dbFails) ==
    LET id == SelectUserByCustomer(ev.customerId) IN
    /\ UNCHANGED <<store, gateway, now>>
    /\ IF dbFails THEN Reply(WebhookResp(500, "D1_ERROR", ev, TRUE))
       ELSE IF id = 0 THEN Reply(WebhookResp(200, NoError, ev, FALSE))
       ELSE Await([pc |-> "wc_update", op |-> "webhook", ev |-> ev, userId |-> id])

\* UPDATE subscriptions SET status = 'ACTIVE', square_subscription_id = ?
\* WHERE user_id = ? AND square_subscription_id = ?
SubCreatedUpdate(i, dbFails) ==
    LET r == reqs[i] IN
    /\ r.pc = "wc_update"
    /\ UNCHANGED <<users, payments, sessions, gateway, now>>
    /\ IF dbFails
       THEN UNCHANGED subscriptions /\ Respond(i, WebhookResp(500, "D1_ERROR", r.ev, TRUE))
       ELSE /\ subscriptions' =
                  [k \in DOMAIN subscriptions |->
                      IF subscriptions[k].user_id = r.userId
                         /\ subscriptions[k].square_subscription_id = r.ev.id
                      THEN [subscriptions[k] EXCEPT !.status = "ACTIVE"]
                      ELSE subscriptions[k]]
            /\ Respond(i, WebhookResp(200, NoError, r.ev, FALSE))

\* the status handleSubscriptionUpdatedWebhook writes: subscription.status
UpdatedStatus(ev) == ev.status

\* a check that forgets PAUSED
RevokesOnCancelOnly(status) == status = "CANCELED"

\* status === 'CANCELED' || status === 'PAUSED'
RevokesAccess(status) == status \in {"CANCELED", "PAUSED"}

\* the rows UPDATE subscriptions SET status = ? WHERE square_subscription_id = ? changes
UpdatedRows(ev) == SubsWithGwId(ev.id)

\* handleSubscriptionUpdatedWebhook: UPDATE subscriptions SET status = ?
\* WHERE square_subscription_id = ?
SubUpdatedUpdate(ev, dbFails) ==
    /\ UNCHANGED <<users, payments, sessions, gateway, now>>
    /\ IF dbFails
       THEN UNCHANGED subscriptions /\ Reply(WebhookResp(500, "D1_ERROR", ev, TRUE))
       ELSE /\ subscriptions' =
                  [k \in DOMAIN subscriptions |->
                      IF k \in UpdatedRows(ev)
                      THEN [subscriptions[k] EXCEPT !.status = UpdatedStatus(ev)]
                      ELSE subscriptions[k]]
            /\ IF RevokesAccess(ev.status)
               THEN Await([pc |-> "wu_select", op |-> "webhook", ev |-> ev])
               ELSE Reply(WebhookResp(200, NoError, ev, FALSE))

\* SELECT user_id FROM subscriptions WHERE square_subscription_id = ?
SubUpdatedSelect(i, dbFails) ==
    LET r == reqs[i]
        k == SelectSubByGwId(r.ev.id)
    IN
    /\ r.pc = "wu_select"
    /\ UNCHANGED <<store, gateway, now>>
    /\ IF dbFails THEN Respond(i, WebhookResp(500, "D1_ERROR", r.ev, TRUE))
       ELSE IF k = 0 THEN Respond(i, WebhookResp(200, NoError, r.ev, FALSE))
       ELSE Continue(i, [pc |-> "wu_revoke", op |-> "webhook", ev |-> r.ev,
                         userId |-> subscriptions[k].user_id])

\* UPDATE users SET subscription_active = false WHERE id = ?
SubUpdatedRevoke(i, dbFails) ==
    LET r == reqs[i] IN
    /\ r.pc = "wu_revoke"
    /\ UNCHANGED <<subscriptions, payments, sessions, gateway, now>>
    /\ IF dbFails
       THEN UNCHANGED users /\ Respond(i, WebhookResp(500, "D1_ERROR", r.ev, TRUE))
       ELSE /\ users' = [users EXCEPT ![r.userId].subscription_active = FALSE]
            /\ Respond(i, WebhookResp(200, NoError, r.ev, FALSE))

\* handlePaymentSuccessWebhook: SELECT user_id FROM subscriptions WHERE
\* square_subscription_id = ?
PaymentMadeSelect(ev, dbFails) ==
    LET k == SelectSubByGwId(ev.subscriptionId) IN
    /\ UNCHANGED <<store, gateway, now>>
    /\ IF dbFails THEN Reply(WebhookResp(500, "D1_ERROR", ev, TRUE))
       ELSE IF k = 0 THEN Reply(WebhookResp(200, NoError, ev, FALSE))
       ELSE /\ RoomForPayment
            /\ Await([pc |-> "pm_activate", op |-> "webhook", ev |-> ev,
                      userId |-> subscriptions[k].user_id])

\* UPDATE users SET subscription_active = true WHERE id = ?; then .bind(...)
\* of the INSERT, which throws at once when the store rejects undefined
PaymentMadeActivate(i, undefinedBind, dbFails) ==
    LET r == reqs[i] IN
    /\ r.pc = "pm_activate"
    /\ UNCHANGED <<subscriptions, payments, sessions, gateway, now>>
    /\ IF dbFails
       THEN /\ undefinedBind = "null"
            /\ UNCHANGED users
            /\ Respond(i, WebhookResp(500, "D1_ERROR", r.ev, TRUE))
       ELSE /\ users' = [users EXCEPT ![r.userId].subscription_active = TRUE]
            /\ IF undefinedBind = "throws"
               THEN Respond(i, WebhookResp(500, "D1_TYPE_ERROR", r.ev, FALSE))
               ELSE Continue(i, [r EXCEPT !.pc = "pm_insert"])

\* invoice.totalMoney?.amount || 0
InvoiceAmount(inv) == IF inv.totalMoney = NULL THEN 0 ELSE ValueOf(inv.totalMoney).amount

\* invoice.totalMoney?.currency || 'GBP'
InvoiceCurrency(inv) ==
    IF inv.totalMoney = NULL \/ ValueOf(inv.totalMoney).currency = "" THEN "GBP"
    ELSE ValueOf(inv.totalMoney).currency

\* the row of INSERT INTO payments (user_id, subscription_id, amount, currency,
\* status, square_payment_id, created_at): subscription.square_subscription_id is
\* not among the columns the SELECT returned, so the value bound is undefined
NewPaymentRow(userId, inv, status) ==
    [user_id |-> userId, subscription_id |-> NULL, amount |-> InvoiceAmount(inv),
     currency |-> InvoiceCurrency(inv), status |-> status,
     square_payment_id |-> inv.id, failure_reason |-> NULL]

\* an INSERT that overwrites the row of the same invoice, if there is one
UpsertPayment(rows, row) ==
    IF \E k \in DOMAIN rows : rows[k].square_payment_id = row.square_payment_id
    THEN [k \in DOMAIN rows |->
            IF rows[k].square_payment_id = row.square_payment_id THEN row ELSE rows[k]]
    ELSE Append(rows, row)

\* INSERT INTO payments: the table after the statement
InsertPayment(rows, row) == Append(rows, row)

\* INSERT INTO payments ... 'SUCCESS', 200
PaymentMadeInsert(i, dbFails) ==
    LET r == reqs[i] IN
    /\ r.pc = "pm_insert"
    /\ UNCHANGED <<users, subscriptions, sessions, gateway, now>>
    /\ IF dbFails
       THEN /\ UNCHANGED payments
            /\ Respond(i, WebhookResp(500, "D1_ERROR", r.ev, TRUE))
       ELSE /\ payments' = InsertPayment(payments, NewPaymentRow(r.userId, r.ev.invoice, "SUCCESS"))
            /\ Respond(i, WebhookResp(200, NoError, r.ev, FALSE))

\* handlePaymentFailedWebhook: SELECT user_id FROM subscriptions WHERE
\* square_subscription_id = ?; then .bind(...) of the INSERT, which throws at
\* once when the store rejects undefined
PaymentFailedSelect(ev, undefinedBind, dbFails) ==
    LET k == SelectSubByGwId(ev.subscriptionId) IN
    /\ UNCHANGED <<store, gateway, now>>
    /\ IF dbFails
       THEN undefinedBind = "null" /\ Reply(WebhookResp(500, "D1_ERROR", ev, TRUE))
       ELSE IF k = 0
       THEN undefinedBind = "null" /\ Reply(WebhookResp(200, NoError, ev, FALSE))
       ELSE IF undefinedBind = "throws"
       THEN Reply(WebhookResp(500, "D1_TYPE_ERROR", ev, FALSE))
       ELSE /\ RoomForPayment
            /\ Await([pc |-> "pf_insert", op |-> "webhook", ev |-> ev,
                      userId |-> subscriptions[k].user_id])

\* INSERT INTO payments ... 'FAILED', 200
PaymentFailedInsert(i, dbFails) ==
    LET r == reqs[i] IN
    /\ r.pc = "pf_insert"
    /\ UNCHANGED <<users, subscriptions, sessions, gateway, now>>
    /\ IF dbFails
       THEN /\ UNCHANGED payments
            /\ Respond(i, WebhookResp(500, "D1_ERROR", r.ev, TRUE))
       ELSE /\ payments' = InsertPayment(payments, NewPaymentRow(r.userId, r.ev.invoice, "FAILED"))
            /\ Respond(i, WebhookResp(200, NoError, r.ev, FALSE))

----------------------------------------------------------------------------
(* Specifications *)

Init ==
    /\ users = AdminUsers
    /\ subscriptions = <<>>
    /\ payments = <<>>
    /\ sessions = <<>>
    /\ gwCustomers = 0
    /\ gwSubs = <<>>
    /\ reqs = <<>>
    /\ resp = NoResp
    /\ clientTokens = {}
    /\ now = 0

\* /api/auth/register with the given bodies
RegisterOf(inputs) ==
    \/ \E in \in inputs, dbFails \in BOOLEAN : RegisterCheck(in, dbFails)
    \/ \E i \in InFlight, dbFails \in BOOLEAN : RegisterInsertUser(i, dbFails)
    \/ \E i \in InFlight, tok \in SessionTokens, dbFails \in BOOLEAN :
            RegisterInsertSession(i, tok, dbFails)

Register == RegisterOf(RegisterInputs)

\* /api/auth/login with the given bodies
LoginOf(inputs) ==
    \/ \E in \in inputs, dbFails \in BOOLEAN : LoginCheck(in, dbFails)
    \/ \E i \in InFlight, dbFails \in BOOLEAN : LoginUpdate(i, dbFails)
    \/ \E i \in InFlight, tok \in SessionTokens, dbFails \in BOOLEAN :
            LoginInsertSession(i, tok, dbFails)
    \/ \E i \in InFlight, dbFails \in BOOLEAN : LoginSelectSubscription(i, dbFails)

Login == LoginOf(LoginInputs)

CreateSubscription(emails, planTypes) ==
    \/ \E in \in CreateSubscriptionInputs(emails, planTypes), location \in LocationResults :
            CreateSubCheck(in, location)
    \/ \E i \in InFlight, dbFails \in BOOLEAN : CreateSubSelectUser(i, dbFails)
    \/ \E i \in InFlight, dbFails \in BOOLEAN : CreateSubSelectActive(i, dbFails)
    \/ \E i \in InFlight, dbFails \in BOOLEAN : CreateSubInsertUser(i, dbFails)
    \/ \E i \in InFlight, customerOk \in BOOLEAN : CreateSubCustomer(i, customerOk)
    \/ \E i \in InFlight, dbFails \in BOOLEAN : CreateSubSaveCustomer(i, dbFails)
    \/ \E i \in InFlight, subscriptionOk \in BOOLEAN, st \in CreateStatuses,
          ub \in UndefinedBinds :
            CreateSubGateway(i, subscriptionOk, st, ub)
    \/ \E i \in InFlight, dbFails \in BOOLEAN : CreateSubInsert(i, dbFails)

WebhookOther ==
    \E kind \in BadDeliveries : WebhookBad(kind)

WebhookSubscriptionCreated ==
    \/ \E ev \in SubscriptionEvents("subscription.created"), dbFails \in BOOLEAN :
            SubCreatedSelect(ev, dbFails)
    \/ \E i \in InFlight, dbFails \in BOOLEAN : SubCreatedUpdate(i, dbFails)

WebhookSubscriptionUpdated ==
    \/ \E ev \in SubscriptionEvents("subscription.updated"), dbFails \in BOOLEAN :
            SubUpdatedUpdate(ev, dbFails)
    \/ \E i \in InFlight, dbFails \in BOOLEAN : SubUpdatedSelect(i, dbFails)
    \/ \E i \in InFlight, dbFails \in BOOLEAN : SubUpdatedRevoke(i, dbFails)

WebhookPaymentMade ==
    \/ \E ev \in InvoiceEvents("invoice.payment_made"), dbFails \in BOOLEAN :
            PaymentMadeSelect(ev, dbFails)
    \/ \E i \in InFlight, ub \in UndefinedBinds, dbFails \in BOOLEAN :
            PaymentMadeActivate(i, ub, dbFails)
    \/ \E i \in InFlight, dbFails \in BOOLEAN : PaymentMadeInsert(i, dbFails)

WebhookPaymentFailed ==
    \/ \E ev \in InvoiceEvents("invoice.payment_failed"), ub \in UndefinedBinds,
          dbFails \in BOOLEAN :
            PaymentFailedSelect(ev, ub, dbFails)
    \/ \E i \in InFlight, dbFails \in BOOLEAN : PaymentFailedInsert(i, dbFails)

VerifyToken ==
    \E header \in VerifyHeaders, dbFails \in BOOLEAN : Verify(header, dbFails)

\* every endpoint
Next ==
    \/ Register
    \/ Login
    \/ VerifyToken
    \/ Tick
    \/ CreateSubscription(ValidEmails, PlanTypes \cup ObjectPrototypeMembers)
    \/ WebhookOther
    \/ WebhookSubscriptionCreated
    \/ WebhookSubscriptionUpdated
    \/ WebhookPaymentMade
    \/ WebhookPaymentFailed

Spec == Init /\ [][Next]_vars

\* the endpoints of auth.js that read or write users.email and
\* users.password_hash
NextAccounts ==
    \/ Register
    \/ Login

SpecAccounts == Init /\ [][NextAccounts]_vars

\* one valid body for register and login
ValidRegister == [email |-> eUpper, firstName |-> "A", lastName |-> "B", password |-> pwGood]
ValidLogin == [email |-> eLower, password |-> pwGood]

\* accounts that register creates and accounts that createSubscription
\* creates, for one email in two letter cases
NextSubscribers ==
    \/ RegisterOf({ValidRegister, [ValidRegister EXCEPT !.email = eLower]})
    \/ LoginOf({ValidLogin})
    \/ CreateSubscription({eUpper}, {"pro-monthly"})

SpecSubscribers == Init /\ [][NextSubscribers]_vars

\* subscriptions from their creation on, for a user of schema.sql, as the
\* gateway's subscription.updated deliveries change them
NextSubscriptions ==
    \/ CreateSubscription({eJohn}, {"pro-monthly"})
    \/ WebhookSubscriptionUpdated

SpecSubscriptions == Init /\ [][NextSubscriptions]_vars

\* the endpoints that write payments, and the one that creates the
\* subscriptions they refer to
NextPayments ==
    \/ CreateSubscription({eJohn}, {"pro-monthly"})
    \/ WebhookPaymentMade
    \/ WebhookPaymentFailed

SpecPayments == Init /\ [][NextPayments]_vars

\* credentials from their issue to their expiry
NextSessions ==
    \/ RegisterOf({ValidRegister})
    \/ LoginOf({ValidLogin})
    \/ VerifyToken
    \/ Tick

SpecSessions == Init /\ [][NextSessions]_vars

\* a credential, and the deliveries that change its user's flag
NextFresh ==
    \/ RegisterOf({ValidRegister})
    \/ CreateSubscription({eLower}, {"pro-monthly"})
    \/ WebhookPaymentMade
    \/ VerifyToken

SpecFresh == Init /\ [][NextFresh]_vars

\* every kind of delivery to /api/square-webhook that changes no payment
NextDeliveries ==
    \/ CreateSubscription({eLower}, {"pro-monthly"})
    \/ WebhookOther
    \/ WebhookSubscriptionCreated
    \/ WebhookSubscriptionUpdated

SpecDeliveries == Init /\ [][NextDeliveries]_vars

\* /api/create-subscription alone, with two plans of the catalogue and an
\* inherited member
NextPlans == CreateSubscription({eLower}, {"pro-monthly", "pro-annual", "constructor"})

SpecPlans == Init /\ [][NextPlans]_vars

----------------------------------------------------------------------------
(* Properties *)

\* a request that is answered in the step in which it arrives
Answered(op) == reqs' = reqs /\ resp'.op = op

\* a request that arrives in this step and goes on to its next await
GoesOn(op) == Len(reqs') = Len(reqs) + 1 /\ reqs'[Len(reqs')].op = op

\* a request that is answered in this step, after earlier steps
Finished(op) == Len(reqs') < Len(reqs) /\ resp'.op = op

\* a request in flight takes the step that leads from one await to another
Moves(from, to) ==
    /\ Len(reqs') = Len(reqs)
    /\ \E i \in DOMAIN reqs : reqs[i].pc = from /\ reqs'[i].pc = to

\* its place in reqs
Mover(from, to) == CHOOSE i \in DOMAIN reqs : reqs[i].pc = from /\ reqs'[i].pc = to

\* the request at place i takes a step
Steps(i) == reqs' = Without(reqs, i) \/ (Len(reqs') = Len(reqs) /\ reqs'[i] # reqs[i])

\* the users that /api/auth/register created: those with a password
Registered(id) == users[id].password_hash # NULL

SameUpToCase(e1, e2) == toLowerCase(e1) = toLowerCase(e2)

SubsOf(u) == {k \in DOMAIN subscriptions : subscriptions[k].user_id = u}

\* the subscription row of user u that was recorded last
LatestSubOf(u) == CHOOSE k \in SubsOf(u) : \A j \in SubsOf(u) : j <= k

\* C1: in every reachable state, each user has at most one subscription row
\* whose status is ACTIVE.
C1_AtMostOneActive ==
    \A u \in UserIds : Cardinality(ActiveSubsOf(u)) <= 1

\* C2: with no request in flight, the subscription_active flag of a user who
\* has a subscription agrees with the status recorded last for it: true when
\* it is ACTIVE, false when it is CANCELED or PAUSED.
C2_FlagAgreesWithStatus ==
    reqs = <<>> =>
        \A u \in UserIds :
            SubsOf(u) # {} =>
                LET st == subscriptions[LatestSubOf(u)].status IN
                /\ st = "ACTIVE" => users[u].subscription_active
                /\ st \in {"CANCELED", "PAUSED"} => ~users[u].subscription_active

\* C3: once an invoice.payment_made delivery for a subscription that exists
\* locally has been handled without a store fault, whether it is the first
\* delivery of that invoice or a replay, exactly one SUCCESS payment row holds
\* the invoice id as square_payment_id.
C3_ReplayLeavesOneRow ==
    (/\ resp.op = "webhook"
     /\ resp.ev.type = "invoice.payment_made"
     /\ ~resp.fault
     /\ SubsWithGwId(resp.ev.subscriptionId) # {}) =>
        Cardinality({k \in DOMAIN payments :
                        /\ payments[k].square_payment_id = resp.ev.invoice.id
                        /\ payments[k].status = "SUCCESS"}) = 1

\* a body that passes the validation of /api/auth/register
RegisterValid(in) ==
    RegisterMissing(in) = {} /\ emailRegexTest(in.email) /\ Len(in.password) >= 8

\* a valid body whose email a registered user has, up to letter case
RegisteredUpToCase(in) ==
    /\ RegisterValid(in)
    /\ \E id \in UserIds : Registered(id) /\ SameUpToCase(users[id].email, in.email)

\* C4: the user row a registration inserts holds the input email
\* lower-cased, and a registration that succeeds returns that row's id and
\* email; and a valid register call that arrives when a registered user has
\* the same email up to letter case (the same lower-cased email, which is
\* what the service normalises to) is answered 409 and adds no user row
\* (unless the store fails its SELECT).
C4_RegisterNormalizesEmail ==
    [][/\ Moves("reg_insert_user", "reg_insert_session") =>
              LET r == reqs'[Mover("reg_insert_user", "reg_insert_session")] IN
              /\ users' = Append(users, users'[Len(users')])
              /\ r.userId = Len(users')
              /\ users'[Len(users')].email = toLowerCase(r.in.email)
       /\ (resp'.op = "register" /\ resp'.status = 201) =>
              /\ resp'.user.email = toLowerCase(resp'.in.email)
              /\ resp'.user.id \in DOMAIN users'
              /\ users'[resp'.user.id].email = toLowerCase(resp'.in.email)
       /\ GoesOn("register") => ~RegisteredUpToCase(reqs'[Len(reqs')].in)
       /\ (Answered("register") /\ ~resp'.fault /\ RegisteredUpToCase(resp'.in)) =>
              /\ resp'.status = 409
              /\ users' = users
      ]_vars

\* a second registration in another letter case has been answered 409
C4_Witness ==
    /\ resp.op = "register"
    /\ resp.status = 409
    /\ resp.in.email = eUpper
    /\ \E id \in UserIds : Registered(id) /\ users[id].email = eLower

\* C5: the register request whose INSERT the unique constraint on users.email
\* rejects is answered 409 (DuplicateEmail), and one user row holds the email.
C5_RaceLoserGetsConflict ==
    (resp.op = "register" /\ resp.uniqueViolation) =>
        /\ resp.status = 409
        /\ Cardinality({id \in UserIds : users[id].email = toLowerCase(resp.in.email)}) = 1

\* what the caller of /api/auth/login sees
LoginBody(r) == [status |-> r.status, error |-> r.error]

\* the email of the body is that of no user
UnknownEmail(in) == \A id \in UserIds : users[id].email # toLowerCase(in.email)

\* the email of the body is that of a user, the password is not that user's
\* (a user without a credential has no password)
WrongPassword(in) ==
    \E id \in UserIds :
        /\ users[id].email = toLowerCase(in.email)
        /\ bcryptCompare(in.password, users[id].password_hash) # "match"

\* a body with both fields that fails for one of the two reasons
BadCredentials(in) ==
    /\ in.email # eEmpty
    /\ in.password # pwEmpty
    /\ UnknownEmail(in) \/ WrongPassword(in)

\* C6: a login with the email of a user and a password that is not that
\* user's, and a login with an email that no user has, are both answered at
\* once with the same body, 401 "Invalid email or password", and change no
\* user and no session row (unless the store fails).
C6_InvalidCredentialsUniform ==
    [][/\ GoesOn("login") => ~BadCredentials(reqs'[Len(reqs')].in)
       /\ (Answered("login") /\ ~resp'.fault /\ BadCredentials(resp'.in)) =>
              /\ LoginBody(resp') = [status |-> 401, error |-> "Invalid email or password"]
              /\ users' = users
              /\ sessions' = sessions
      ]_vars

\* a body that passes the validation of /api/create-subscription
CreateSubValid(in) == CreateSubMissing(in) = {} /\ PlanFound(in.planType)

\* C7: a createSubscription request that has found its user and looks for
\* an ACTIVE subscription row of that user when there is one is answered 409
\* whatever plan it asks for, and that step creates no gateway customer and
\* no gateway subscription and inserts no row; before that step the request
\* has called the gateway for the location only and written nothing.
C7_AlreadyActiveAnyPlan ==
    [][\A i \in DOMAIN reqs :
          (/\ reqs[i].pc = "cs_select_active"
           /\ ActiveSubsOf(reqs[i].did.userId) # {}
           /\ Steps(i)) =>
              /\ reqs[i].did = [NoEffects EXCEPT !.userId = reqs[i].did.userId]
              /\ users[reqs[i].did.userId].email = reqs[i].in.email
              /\ UNCHANGED <<gwCustomers, gwSubs, subscriptions, users>>
              /\ reqs' = Without(reqs, i)
              /\ resp'.op = "createSubscription"
              /\ resp'.status = 409
              /\ resp'.in = reqs[i].in
      ]_vars

\* C8: a createSubscription request whose gateway subscription was created and
\* whose INSERT INTO subscriptions failed does not report success: it is
\* answered with an error.
C8_InsertFailureIsAnError ==
    (resp.op = "createSubscription" /\ resp.did.gwSubId # 0 /\ resp.did.insertFailed) =>
        /\ resp.status \notin 200..299
        /\ resp.error # NoError

\* C9: createSubscription (the only handler that inserts users without a
\* password) inserts no user row whose email differs only in letter case from
\* the email of an existing user.
C9_ReusesUserUpToCase ==
    [][(Len(users') = Len(users) + 1 /\ users'[Len(users')].password_hash = NULL) =>
          \A id \in UserIds : ~SameUpToCase(users[id].email, users'[Len(users')].email)
      ]_vars

\* C10: the first statement of a subscription.updated delivery for a gateway
\* subscription that exists locally sets the status of its row to the status
\* of the payload and changes no other row and no user, and the delivery goes
\* on exactly when that status is CANCELED or PAUSED; it then looks up the
\* owner of the row, changing nothing, and its last statement sets the flag
\* of that user to false and changes no other user and no subscription row
\* (unless the store fails a statement).
C10_UpdatedSetsStatusAndRevokes ==
    [][/\ \A ev \in SubscriptionEvents("subscription.updated") :
              LET answered == Answered("webhook") /\ resp'.ev = ev /\ ~resp'.fault
                  goesOn == reqs' = Append(reqs, [pc |-> "wu_select", op |-> "webhook", ev |-> ev])
              IN (SubsWithGwId(ev.id) # {} /\ (answered \/ goesOn)) =>
                    /\ subscriptions' =
                          [k \in DOMAIN subscriptions |->
                              IF subscriptions[k].square_subscription_id = ev.id
                              THEN [subscriptions[k] EXCEPT !.status = ev.status]
                              ELSE subscriptions[k]]
                    /\ users' = users
                    /\ goesOn <=> ev.status \in {"CANCELED", "PAUSED"}
       /\ Moves("wu_select", "wu_revoke") =>
              LET r == reqs'[Mover("wu_select", "wu_revoke")] IN
              /\ UNCHANGED <<users, subscriptions>>
              /\ \E k \in SubsWithGwId(r.ev.id) : subscriptions[k].user_id = r.userId
       /\ (/\ Finished("webhook")
           /\ resp'.ev.type = "subscription.updated"
           /\ ~resp'.fault
           /\ SubsWithGwId(resp'.ev.id) # {}) =>
              LET k == CHOOSE k \in SubsWithGwId(resp'.ev.id) : TRUE IN
              /\ resp'.ev.status \in {"CANCELED", "PAUSED"}
              /\ users' = [users EXCEPT ![subscriptions[k].user_id].subscription_active = FALSE]
              /\ subscriptions' = subscriptions
      ]_vars

\* a PAUSED delivery has been handled for the subscription of a user whose
\* flag was true: the row is PAUSED and the flag is false
C10_Witness ==
    /\ resp.op = "webhook"
    /\ resp.status = 200
    /\ resp.ev.type = "subscription.updated"
    /\ resp.ev.status = "PAUSED"
    /\ \E k \in SubsWithGwId(resp.ev.id) :
          /\ subscriptions[k].status = "PAUSED"
          /\ users[subscriptions[k].user_id].email = eJohn
          /\ ~users[subscriptions[k].user_id].subscription_active

\* C11: every delivery to the webhook endpoint is answered 200, except that
\* one without a signature header or with a body that is no JSON is answered
\* 400; a delivery whose processing fails is answered 200 too.
C11_OnlyMalformedRejected ==
    resp.op = "webhook" =>
        IF resp.ev.type \in {"no signature", "invalid json"}
        THEN resp.status = 400
        ELSE resp.status = 200

\* C12: no step removes or changes a session row; a login that has passed
\* its checks inserts, in one step, one session row, for its user, whose token
\* no row held before, and no other step of a login inserts one; and a login
\* answered 200 returns the token of exactly one row, which belongs to the
\* user it returns.
C12_LoginAddsOneSession ==
    [][/\ Len(sessions') >= Len(sessions)
       /\ \A k \in DOMAIN sessions : sessions'[k] = sessions[k]
       /\ (GoesOn("login") \/ Moves("login_update", "login_session")) =>
              sessions' = sessions
       /\ Moves("login_session", "login_sub") =>
              LET r == reqs'[Mover("login_session", "login_sub")] IN
              /\ Len(sessions') = Len(sessions) + 1
              /\ sessions'[Len(sessions')].user_id = r.userId
              /\ sessions'[Len(sessions')].session_token = r.sessionToken
              /\ \A k \in DOMAIN sessions : sessions[k].session_token # r.sessionToken
       /\ (Finished("login") /\ resp'.status = 200) =>
              /\ sessions' = sessions
              /\ Cardinality({k \in DOMAIN sessions :
                                sessions[k].session_token = resp'.sessionToken}) = 1
              /\ \A k \in DOMAIN sessions :
                    sessions[k].session_token = resp'.sessionToken =>
                        sessions[k].user_id = resp'.user.id
      ]_vars

\* a login has succeeded for a user who holds two sessions: the one of the
\* registration, or of an earlier login, and its own
C12_Witness ==
    /\ resp.op = "login"
    /\ resp.status = 200
    /\ Cardinality({k \in DOMAIN sessions : sessions[k].user_id = resp.user.id}) = 2

\* C13: verify with a token of the service's key that has not expired, the
\* store answering, returns 200 with the subscription_active value the user
\* row holds at that moment, and 404 when no user row has the token's userId.
C13_VerifyReadsFreshFlag ==
    [][(/\ Answered("verify")
        /\ ~resp'.fault
        /\ resp'.header # NULL
        /\ ValueOf(resp'.header).secret = JWT_SECRET
        /\ now < ValueOf(resp'.header).exp) =>
            LET t == ValueOf(resp'.header) IN
            IF t.userId \in UserIds
            THEN /\ resp'.status = 200
                 /\ resp'.user.id = t.userId
                 /\ resp'.user.subscriptionActive = users[t.userId].subscription_active
            ELSE resp'.status = 404
      ]_vars

\* verify has reported a flag that is true although every Response that
\* carried the token gave the client false
C13_Witness ==
    /\ resp.op = "verify"
    /\ resp.status = 200
    /\ resp.user.subscriptionActive
    /\ \A k \in DOMAIN sessions :
          sessions[k].issued.token = ValueOf(resp.header) =>
              ~sessions[k].issued.subscriptionActive

\* C14: verify of a token that register or login issued is answered 200 with
\* the token's userId and email at every time before 7 days have passed since
\* its issue (the store answering), and every token is answered 401 "Invalid
\* or expired token" once 7 days have passed since its issue, or when it is
\* signed with another key.
C14_TokenValidForTtl ==
    [][(Answered("verify") /\ ~resp'.fault /\ resp'.header # NULL) =>
            LET t == ValueOf(resp'.header) IN
            /\ (t \in IssuedTokens /\ now < t.iat + TokenDays) =>
                  /\ resp'.status = 200
                  /\ resp'.user.id = t.userId
                  /\ resp'.user.email = t.email
            /\ (now >= t.iat + TokenDays \/ t.secret # JWT_SECRET) =>
                  /\ resp'.status = 401
                  /\ resp'.error = "Invalid or expired token"
      ]_vars

\* a token that was issued has been refused after its 7 days
C14_Witness ==
    /\ resp.op = "verify"
    /\ resp.status = 401
    /\ resp.header # NULL
    /\ ValueOf(resp.header) \in IssuedTokens
    /\ now >= ValueOf(resp.header).iat + TokenDays

\* C15: verify is never answered 200 for the token that was issued together
\* with a session whose expires_at the clock has reached.
C15_ExpiredSessionInert ==
    [][(Answered("verify") /\ resp'.header # NULL) =>
            \A k \in DOMAIN sessions :
                (/\ sessions[k].issued.token = ValueOf(resp'.header)
                 /\ sessions[k].expires_at <= now) =>
                    resp'.status = 401
      ]_vars

\* the token of a session that has expired has been refused
C15_Witness ==
    /\ resp.op = "verify"
    /\ resp.status = 401
    /\ resp.header # NULL
    /\ \E k \in DOMAIN sessions :
          /\ sessions[k].issued.token = ValueOf(resp.header)
          /\ sessions[k].expires_at <= now

\* C16: every step leaves each payment row that exists where and as it is,
\* and the only steps that add a row, one row, are those of the
\* invoice.payment_made and invoice.payment_failed handlers.
C16_PaymentsAppendOnly ==
    [][/\ Len(payments') >= Len(payments)
       /\ \A k \in DOMAIN payments : payments'[k] = payments[k]
       /\ payments' # payments =>
              /\ Len(payments') = Len(payments) + 1
              /\ resp'.op = "webhook"
              /\ resp'.ev.type \in {"invoice.payment_made", "invoice.payment_failed"}
      ]_vars

\* a payment row has been added after another one, for the same invoice
C16_Witness ==
    /\ Len(payments) = 2
    /\ payments[1].square_payment_id = payments[2].square_payment_id
    /\ payments[1].status # payments[2].status

ClosedStatuses == {"ACTIVE", "CANCELED", "PAUSED", "PENDING"}

\* C17: the status of every subscription row, and every subscription status
\* that createSubscription or login returns, is one of ACTIVE, CANCELED,
\* PAUSED, PENDING.
C17_StatusSetClosed ==
    /\ \A k \in DOMAIN subscriptions : subscriptions[k].status \in ClosedStatuses
    /\ (resp.op = "createSubscription" /\ resp.status = 201) =>
            resp.subscription.status \in ClosedStatuses
    /\ (resp.op = "login" /\ resp.status = 200 /\ resp.user.subscription # NULL) =>
            ValueOf(resp.user.subscription).status \in ClosedStatuses

\* C18: once an invoice.payment_made delivery for a subscription that exists
\* locally has been handled without a store fault, it has been answered 200,
\* the flag of the user who owns the subscription is true, and a SUCCESS
\* payment row holds that user, the gateway subscription id and the invoice id.
C18_PaymentMadeRecorded ==
    (/\ resp.op = "webhook"
     /\ resp.ev.type = "invoice.payment_made"
     /\ ~resp.fault
     /\ SubsWithGwId(resp.ev.subscriptionId) # {}) =>
        LET owner == subscriptions[SelectSubByGwId(resp.ev.subscriptionId)].user_id IN
        /\ resp.status = 200
        /\ users[owner].subscription_active
        /\ \E k \in DOMAIN payments :
              /\ payments[k].status = "SUCCESS"
              /\ payments[k].user_id = owner
              /\ payments[k].subscription_id = Some(resp.ev.subscriptionId)
              /\ payments[k].square_payment_id = resp.ev.invoice.id

\* C19: once an invoice.payment_failed delivery for a subscription that
\* exists locally has been handled without a store fault, a FAILED payment
\* row holds the invoice id and a failure reason that is not null.
C19_PaymentFailedHasReason ==
    (/\ resp.op = "webhook"
     /\ resp.ev.type = "invoice.payment_failed"
     /\ ~resp.fault
     /\ SubsWithGwId(resp.ev.subscriptionId) # {}) =>
        \E k \in DOMAIN payments :
            /\ payments[k].status = "FAILED"
            /\ payments[k].square_payment_id = resp.ev.invoice.id
            /\ payments[k].failure_reason # NULL

\* C20: every subscription row whose status is CANCELED, which only a
\* subscription.updated delivery can make it, has an ended_at that is not null.
C20_EndedAtSetOnCancel ==
    \A k \in DOMAIN subscriptions :
        subscriptions[k].status = "CANCELED" => subscriptions[k].ended_at # NULL

----------------------------------------------------------------------------
\* a createSubscription request ends in this step because the given call to
\* the gateway failed
GatewayFailure(call) ==
    /\ resp'.op = "createSubscription"
    /\ resp'.did.failedCall = call
    /\ \/ call = "location" /\ Answered("createSubscription")
       \/ call # "location" /\ Finished("createSubscription")

\* C21: when a call of createSubscription to the gateway fails (location
\* lookup, customer creation or subscription creation), the request ends in
\* that step with a 500 error response, the gateway receives no further call
\* (no customer and no subscription is created after the failure), no local
\* subscription row is inserted, and nothing the request wrote before is
\* undone: the step changes no user row, the user row the request inserted is
\* in the store, and the user it stored a customer id on has a customer id
\* (its own, or the one another request for the same user stored over it).
C21_GatewayFailureEndsRequest ==
    [][\A call \in {"location", "customer", "subscription"} :
          GatewayFailure(call) =>
              LET did == resp'.did IN
              /\ resp'.status = 500
              /\ resp'.error # NoError
              /\ subscriptions' = subscriptions
              /\ gwSubs' = gwSubs
              /\ gwCustomers' = gwCustomers
              /\ users' = users
              /\ (call = "location") => ~did.insertedUser
              /\ (call = "customer") => (did.customerId = 0 /\ ~did.savedCustomer)
              /\ (call = "subscription") => (did.customerId \in 1..gwCustomers)
              /\ did.gwSubId = 0
              /\ did.insertedUser =>
                    /\ did.userId \in DOMAIN users'
                    /\ users'[did.userId].email = resp'.in.email
              /\ did.savedCustomer =>
                    /\ users'[did.userId].square_customer_id # NULL
                    /\ ValueOf(users'[did.userId].square_customer_id) \in
                            1..gwCustomers
      ]_vars

\* the subscription call of a request has failed: the user row the request
\* inserted is in the store with the customer id the request stored, and no
\* subscription row exists
C21_Witness ==
    /\ resp.op = "createSubscription"
    /\ resp.status = 500
    /\ resp.did.failedCall = "subscription"
    /\ resp.did.insertedUser
    /\ resp.did.savedCustomer
    /\ users[resp.did.userId].square_customer_id = Some(resp.did.customerId)
    /\ SubsOf(resp.did.userId) = {}

----------------------------------------------------------------------------
\* C22: register is all-or-nothing for the store: a register call answered
\* with an error (400, 409 or 500) has written no user row and no session
\* row (it ends before its INSERT INTO users has added a row), and a register
\* call answered with success has added exactly one user row, in one step,
\* and exactly one session row, which belongs to that user.
C22_RegisterAllOrNothing ==
    [][/\ Answered("register") =>
              /\ resp'.status \in {400, 409, 500}
              /\ users' = users
              /\ sessions' = sessions
       /\ Moves("reg_insert_user", "reg_insert_session") =>
              /\ Len(users') = Len(users) + 1
              /\ sessions' = sessions
       /\ Finished("register") =>
              IF resp'.status = 201
              THEN /\ \E i \in DOMAIN reqs :
                        /\ reqs[i].pc = "reg_insert_session"
                        /\ reqs' = Without(reqs, i)
                        /\ reqs[i].userId = resp'.user.id
                  /\ users' = users
                  /\ Len(sessions') = Len(sessions) + 1
                  /\ SubSeq(sessions', 1, Len(sessions)) = sessions
                  /\ sessions'[Len(sessions')].user_id = resp'.user.id
              ELSE /\ resp'.status \in {400, 409, 500}
                   /\ users' = users
                   /\ sessions' = sessions
                   /\ \E i \in DOMAIN reqs :
                         reqs[i].pc = "reg_insert_user" /\ reqs' = Without(reqs, i)
      ]_vars

----------------------------------------------------------------------------
\* the user rows that createSubscription inserted: register always stores a
\* password_hash and the rows of schema.sql come first
CreatedBySubscription(us) ==
    {u \in DOMAIN us : u > Len(AdminUsers) /\ us[u].password_hash = NULL}

\* C23: a user row that createSubscription created has no password
\* credential and never gets one; a register call made with the email of such
\* a row is answered 409 (the email is taken), and no login is ever answered
\* with success for such a user.
C23_SubscriberHasNoCredential ==
    [][/\ Moves("cs_insert_user", "cs_customer") =>
              /\ Len(users') = Len(users) + 1
              /\ users'[Len(users')].password_hash = NULL
       /\ \A u \in CreatedBySubscription(users) : users'[u].password_hash = NULL
       /\ (/\ GoesOn("register") \/ (Answered("register") /\ ~resp'.fault)
           /\ LET in == IF GoesOn("register") THEN reqs'[Len(reqs')].in ELSE resp'.in
              IN  /\ RegisterValid(in)
                  /\ \E u \in CreatedBySubscription(users) : users[u].email = in.email) =>
              (Answered("register") /\ resp'.status = 409)
       /\ (resp'.op = "login" /\ resp'.status = 200) =>
              resp'.user.id \notin CreatedBySubscription(users')
      ]_vars

=============================================================================
